---- MODULE Spec2Model ----
(***************************************************************************)
(* Verification model of the Branch MCP server's shared core:              *)
(*   - credential resolution        (src/utils/auth.ts)                    *)
(*   - scope query parameters       (src/utils/apiQueryParameters.ts)      *)
(*   - log redaction                (src/utils/logger.ts)                  *)
(*   - error taxonomy               (src/utils/errors.ts, src/utils/api.ts)*)
(*   - the catch blocks of the tool handlers that consume them             *)
(*                                                                         *)
(* JavaScript values are encoded as follows.                               *)
(*   - An optional string (string | undefined) is a TLA+ string; the value *)
(*     `undefined` is the reserved string Undefined, which no caller or    *)
(*     environment value equals.  The empty string "" is a present value.  *)
(*   - A structured (JSON-like) value is a record [t, v, items, props]:    *)
(*     t is the JS type tag, v the primitive's printed form, items the     *)
(*     elements of an array, props the own enumerable properties of an     *)
(*     object in insertion order, each [k |-> key, val |-> value].         *)
(***************************************************************************)
EXTENDS Integers, Sequences, FiniteSets, TLC

VARIABLES
  env,          \* process.env at start-up: each variable unset or set
  config,       \* BranchMcpConfig: built once at start-up, read-only afterwards
  op,           \* name of the operation that ran last ("idle" between calls)
  paramsAtCall, \* the credential fields of the params object the last call was given
  params,       \* the credential fields of that params object after the call
  resolved,     \* return value of the last getResolvedAuth call
  queryParams,  \* return value of the last getApiQueryParams call
  logIn,        \* the argument of the last sanitizeLogObject call
  logOut,       \* return value of the last sanitizeLogObject call
  heap,         \* the JS heap: the object or array at each address
  heapAtCall,   \* the heap as it was when sanitizeLogObject was entered
  heapArg,      \* the argument of that call: a primitive or a reference
  heapResult,   \* what that call returned: a primitive or a reference
  stack,        \* the frames of a sanitizeLogObject call that is running
  info,         \* the log record travelling through the logger's formats
  applied,      \* the formats already applied to it, in order
  written,      \* what the Console transport wrote for the last logger call
  args,         \* the endpoint-specific fields of the last tool call's params
  linkList,     \* the links array of the last bulk call's params
  linkUrl,      \* the url of the last update call's params
  requests,     \* the HTTP requests the last tool call issued, in order
  inFlight,     \* the tool invocations in flight, each with its own locals
  existingLinkData, \* the link the last update's GET returned
  link_data,    \* the link_data of the last update call's params
  payload,      \* the body of the last update's PUT
  transports,   \* the SSE session map: sessionId -> the transport registered under it
  connections,  \* the GET /sse connections so far, each with its sessionId
  posted,       \* the last POST /sse and what was done with it
  caught,       \* the value the last error helper or catch block received
  outcome,      \* how the last call ended: "none", "return" or "throw"
  message,      \* return value of the last getErrorMessage call
  thrown        \* the error the last call threw to its caller

authVars == <<paramsAtCall, params, resolved, queryParams>>
heapVars == <<heap, heapAtCall, heapArg, heapResult, stack>>
pipeVars == <<info, applied, written>>
logVars == <<logIn, logOut, heapVars, pipeVars>>
payloadVars == <<existingLinkData, link_data, payload>>
sseVars == <<transports, connections, posted>>
toolVars == <<args, linkList, linkUrl, requests, inFlight, payloadVars, sseVars>>
errVars == <<caught, outcome, message, thrown>>

vars == <<env, config, op, authVars, logVars, toolVars, errVars>>

(***************************************************************************)
(* Optional strings                                                        *)
(***************************************************************************)
Undefined == "<undefined>"

\* JS truthiness of an optional string: undefined and "" are falsy.
Truthy(s) == s # Undefined /\ s # ""

\* a ?? b on optional strings (null does not occur in the typed domain).
Nullish(a, b) == IF a # Undefined THEN a ELSE b

AuthFields ==
  {"api_key", "branch_key", "branch_secret", "app_id", "organization_id", "auth_token"}

\* A caller may omit a field, pass the empty string, or pass a value.
ParamValues(f) == {Undefined, "", "params_" \o f}

\* An environment variable may be unset, empty, or set.
ConfigValues(f) == {Undefined, "", "config_" \o f}

AuthParams ==
  [api_key : ParamValues("api_key"),
   branch_key : ParamValues("branch_key"),
   branch_secret : ParamValues("branch_secret"),
   app_id : ParamValues("app_id"),
   organization_id : ParamValues("organization_id"),
   auth_token : ParamValues("auth_token")]

BranchMcpConfig ==
  [api_key : ConfigValues("api_key"),
   branch_key : ConfigValues("branch_key"),
   branch_secret : ConfigValues("branch_secret"),
   app_id : ConfigValues("app_id"),
   organization_id : ConfigValues("organization_id"),
   auth_token : ConfigValues("auth_token"),
   branch_url : {Undefined}]

NoParams ==
  [api_key |-> Undefined, branch_key |-> Undefined, branch_secret |-> Undefined,
   app_id |-> Undefined, organization_id |-> Undefined, auth_token |-> Undefined]

\* Callers of the scope builder pass only the two scope identifiers.
ScopeParams ==
  {p \in AuthParams :
     \A f \in AuthFields \ {"app_id", "organization_id"} : p[f] = Undefined}

(***************************************************************************)
(* src/utils/auth.ts                                                       *)
(***************************************************************************)
\* Mutant: the configured api_key is consulted before the caller's auth_token.
resolvedApiKey_ConfigBeforeSynonym(p, c) ==
  Nullish(p.api_key, Nullish(c.api_key, Nullish(p.auth_token, c.auth_token)))

resolvedApiKey(p, c) ==
  Nullish(p.api_key, Nullish(p.auth_token, Nullish(c.api_key, c.auth_token)))

\* Mutant: the configured branch_key shadows the caller's.
getResolvedAuth_ConfigFirst(p, c) ==
  [api_key |-> resolvedApiKey(p, c),
   branch_key |-> Nullish(c.branch_key, p.branch_key),
   branch_secret |-> Nullish(p.branch_secret, c.branch_secret),
   app_id |-> Nullish(p.app_id, c.app_id),
   organization_id |-> Nullish(p.organization_id, c.organization_id),
   auth_token |-> resolvedApiKey(p, c)]

\* Mutant: auth_token is resolved on its own instead of reusing resolvedApiKey.
getResolvedAuth_SeparateToken(p, c) ==
  [api_key |-> resolvedApiKey(p, c),
   branch_key |-> Nullish(p.branch_key, c.branch_key),
   branch_secret |-> Nullish(p.branch_secret, c.branch_secret),
   app_id |-> Nullish(p.app_id, c.app_id),
   organization_id |-> Nullish(p.organization_id, c.organization_id),
   auth_token |-> Nullish(p.auth_token, c.auth_token)]

getResolvedAuth(p, c) ==
  [api_key |-> resolvedApiKey(p, c),
   branch_key |-> Nullish(p.branch_key, c.branch_key),
   branch_secret |-> Nullish(p.branch_secret, c.branch_secret),
   app_id |-> Nullish(p.app_id, c.app_id),
   organization_id |-> Nullish(p.organization_id, c.organization_id),
   auth_token |-> resolvedApiKey(p, c)]

(***************************************************************************)
(* src/utils/apiQueryParameters.ts                                         *)
(* The result is a record holding only the keys that were assigned.        *)
(***************************************************************************)
EmptyObject == [k \in {} |-> ""]

\* queryParams[key] = value
SetKey(q, key, value) ==
  [k \in DOMAIN q \cup {key} |-> IF k = key THEN value ELSE q[k]]

\* The first if/else-if: app_id from params, else from config.
withAppId(p, c) ==
  IF Truthy(p.app_id) THEN SetKey(EmptyObject, "app_id", p.app_id)
  ELSE IF Truthy(c.app_id) THEN SetKey(EmptyObject, "app_id", c.app_id)
  ELSE EmptyObject

\* The second if/else-if: organization_id from params, else from config.
withOrganizationId(q, p, c) ==
  IF Truthy(p.organization_id) THEN SetKey(q, "organization_id", p.organization_id)
  ELSE IF Truthy(c.organization_id) THEN SetKey(q, "organization_id", c.organization_id)
  ELSE q

\* Mutant: the early return after app_id is missing.
getApiQueryParams_NoEarlyReturn(p, c) ==
  withOrganizationId(withAppId(p, c), p, c)

\* Mutant: the configured organization_id is consulted before the caller's.
getApiQueryParams_ConfigOrgFirst(p, c) ==
  LET q == withAppId(p, c)
  IN IF "app_id" \in DOMAIN q /\ Truthy(q.app_id)
       THEN q
       ELSE IF Truthy(c.organization_id)
              THEN SetKey(q, "organization_id", c.organization_id)
            ELSE IF Truthy(p.organization_id)
              THEN SetKey(q, "organization_id", p.organization_id)
            ELSE q

getApiQueryParams(p, c) ==
  LET q == withAppId(p, c)
  IN IF "app_id" \in DOMAIN q /\ Truthy(q.app_id)
       THEN q
       ELSE withOrganizationId(q, p, c)

\* A call seen from its caller: how it ended, what it returned, and the two
\* argument objects as the call left them.
Returned(result, p, c) ==
  [outcome |-> "return", result |-> result, params |-> p, config |-> c]

\* Mutant: the resolved credentials are written back into the params object.
getResolvedAuthCall_WritesParams(p, c) ==
  Returned(getResolvedAuth(p, c), getResolvedAuth(p, c), c)

\* getResolvedAuth reads params and config in five ?? chains and builds a
\* new object literal; it has no assignment to either argument and no
\* statement that can throw on typed arguments.
getResolvedAuthCall(p, c) == Returned(getResolvedAuth(p, c), p, c)

\* Mutant: the scope found is cached on the config object.
getApiQueryParamsCall_WritesConfig(p, c) ==
  Returned(getApiQueryParams(p, c),
           p,
           IF "app_id" \in DOMAIN getApiQueryParams(p, c)
             THEN [c EXCEPT !.app_id = getApiQueryParams(p, c).app_id]
             ELSE c)

\* getApiQueryParams assigns only to its local queryParams = {}.
getApiQueryParamsCall(p, c) == Returned(getApiQueryParams(p, c), p, c)

(***************************************************************************)
(* Structured values                                                       *)
(***************************************************************************)
Prim(type, printed) == [t |-> type, v |-> printed, items |-> <<>>, props |-> <<>>]
Str(s) == Prim("string", s)
Num(n) == Prim("number", n)
Null == Prim("null", "null")
Undef == Prim("undefined", "undefined")
Arr(elements) == [t |-> "array", v |-> "", items |-> elements, props |-> <<>>]
Obj(properties) == [t |-> "object", v |-> "", items |-> <<>>, props |-> properties]
Prop(key, value) == [k |-> key, val |-> value]

\* typeof obj !== 'object' || obj === null  (typeof [] is 'object')
IsNonNullObject(x) == x.t \in {"object", "array"}

(***************************************************************************)
(* src/utils/logger.ts                                                     *)
(***************************************************************************)
SENSITIVE_KEYS ==
  {"branch_secret", "branch_key", "api_key", "auth_token", "app_id", "organization_id"}

REDACTED_PLACEHOLDER == "[REDACTED]"

RECURSIVE sanitizeLogObject_SkipArrays(_)
\* Mutant: arrays are returned as they are instead of being mapped.
sanitizeLogObject_SkipArrays(obj) ==
  IF ~ IsNonNullObject(obj) THEN obj
  ELSE IF obj.t = "array" THEN obj
  ELSE Obj([i \in DOMAIN obj.props |->
              IF obj.props[i].k \in SENSITIVE_KEYS
                THEN Prop(obj.props[i].k, Str(REDACTED_PLACEHOLDER))
                ELSE Prop(obj.props[i].k, sanitizeLogObject_SkipArrays(obj.props[i].val))])

RECURSIVE sanitizeLogObject_DropSensitive(_)
\* Mutant: a sensitive property is left out of the copy instead of replaced.
sanitizeLogObject_DropSensitive(obj) ==
  IF ~ IsNonNullObject(obj) THEN obj
  ELSE IF obj.t = "array"
    THEN Arr([i \in DOMAIN obj.items |-> sanitizeLogObject_DropSensitive(obj.items[i])])
  ELSE LET kept == SelectSeq(obj.props, LAMBDA pr : pr.k \notin SENSITIVE_KEYS)
       IN Obj([i \in DOMAIN kept |->
                 Prop(kept[i].k, sanitizeLogObject_DropSensitive(kept[i].val))])

RECURSIVE sanitizeLogObject_KeepsNested(_)
\* Mutant: only a primitive under a sensitive key is replaced; an object or
\* array under a sensitive key is sanitized like any other value.
sanitizeLogObject_KeepsNested(obj) ==
  IF ~ IsNonNullObject(obj) THEN obj
  ELSE IF obj.t = "array"
    THEN Arr([i \in DOMAIN obj.items |-> sanitizeLogObject_KeepsNested(obj.items[i])])
  ELSE Obj([i \in DOMAIN obj.props |->
              IF obj.props[i].k \in SENSITIVE_KEYS /\ ~ IsNonNullObject(obj.props[i].val)
                THEN Prop(obj.props[i].k, Str(REDACTED_PLACEHOLDER))
                ELSE Prop(obj.props[i].k, sanitizeLogObject_KeepsNested(obj.props[i].val))])

RECURSIVE sanitizeLogObject(_)
sanitizeLogObject(obj) ==
  IF ~ IsNonNullObject(obj) THEN obj
  ELSE IF obj.t = "array"
    THEN Arr([i \in DOMAIN obj.items |-> sanitizeLogObject(obj.items[i])])
  ELSE Obj([i \in DOMAIN obj.props |->
              IF obj.props[i].k \in SENSITIVE_KEYS
                THEN Prop(obj.props[i].k, Str(REDACTED_PLACEHOLDER))
                ELSE Prop(obj.props[i].k, sanitizeLogObject(obj.props[i].val))])

(***************************************************************************)
(* The logger: winston.createLogger with the format pipeline               *)
(* combine(timestamp, errors, splat, sanitizerFormat, json) and a Console  *)
(* transport.  A record in the pipeline is its string-keyed properties     *)
(* (fields), the symbol-keyed properties present on it (symbols), and the  *)
(* serialized form stored under Symbol(message) (text).                    *)
(***************************************************************************)
Info(fields, symbols, text) == [fields |-> fields, symbols |-> symbols, text |-> text]
NoInfo == Info(Undef, {}, Undef)

IndexKey(i) == <<"0", "1", "2", "3", "4", "5", "6">>[i]

\* The own enumerable string-keyed properties of an object or an array.
OwnProps(x) ==
  IF x.t = "array" THEN [i \in DOMAIN x.items |-> Prop(IndexKey(i), x.items[i])]
  ELSE x.props

\* target[key] = value on an object: an existing key keeps its position.
SetProp(x, key, value) ==
  IF \E i \in DOMAIN x.props : x.props[i].k = key
    THEN Obj([i \in DOMAIN x.props |->
                IF x.props[i].k = key THEN Prop(key, value) ELSE x.props[i]])
    ELSE Obj(Append(x.props, Prop(key, value)))

RECURSIVE AssignProps(_, _)
AssignProps(target, props) ==
  IF props = <<>> THEN target
  ELSE AssignProps(SetProp(target, Head(props).k, Head(props).val), Tail(props))

\* Object.assign(target, source)
ObjectAssign(target, source) == AssignProps(target, OwnProps(source))

RECURSIVE JsonStringify(_)
\* JSON.stringify as a value: a property whose value is undefined is left
\* out, an undefined array element becomes null.
JsonStringify(x) ==
  IF x.t = "array"
    THEN Arr([i \in DOMAIN x.items |->
                IF x.items[i].t = "undefined" THEN Null ELSE JsonStringify(x.items[i])])
  ELSE IF x.t = "object"
    THEN LET kept == SelectSeq(x.props, LAMBDA pr : pr.val.t # "undefined")
         IN Obj([i \in DOMAIN kept |-> Prop(kept[i].k, JsonStringify(kept[i].val))])
  ELSE x

LogLevels == {"debug", "info", "error"}

\* logger.<level>(message, meta) with an object or array meta and a message
\* without format tokens: the record handed to the pipeline.
LogRecord(level, meta) ==
  Info(ObjectAssign(ObjectAssign(Obj(<<>>), meta),
                    Obj(<<Prop("level", Str(level)), Prop("message", Str("m"))>>)),
       {"level", "splat"}, Undef)

\* Mutant: the pipeline without the sanitizer.
LoggerFormats_NoSanitizer == <<"timestamp", "errors", "splat", "json">>

\* The formats of winston.format.combine(...), in the order they are listed.
LoggerFormats == <<"timestamp", "errors", "splat", "sanitizerFormat", "json">>

\* sanitizerFormat: the record is replaced by sanitizeLogObject(info), a
\* plain object holding the string-keyed properties only.
sanitizerFormat(i) == Info(sanitizeLogObject(i.fields), {}, Undef)

\* What a format does to a record whose call passed meta.
Transform(format, i, meta) ==
  CASE format = "timestamp" ->
         Info(SetProp(i.fields, "timestamp", Str("YYYY-MM-DD HH:mm:ss")), i.symbols, i.text)
    [] format = "errors" -> i
    [] format = "splat" ->
         IF "splat" \in i.symbols
           THEN Info(ObjectAssign(i.fields, meta), i.symbols, i.text)
           ELSE i
    [] format = "sanitizerFormat" -> sanitizerFormat(i)
    [] format = "json" ->
         Info(i.fields, i.symbols \cup {"message"}, JsonStringify(i.fields))

\* The largest meta argument a logger call is given.
MaxMetaNodes == 4

(***************************************************************************)
(* sanitizeLogObject over the heap.  Objects and arrays have identity: the *)
(* heap is the sequence of the objects allocated so far, an address is an  *)
(* index into it, and a value is a primitive or a reference to an address. *)
(* An object is [array, props]; props are its own enumerable properties in *)
(* insertion order (an array's elements have the key "").                  *)
(***************************************************************************)
HeapPrim(s) == [t |-> "prim", v |-> s, addr |-> 0]
Ref(a) == [t |-> "ref", v |-> "", addr |-> a]
HeapProp(k, val) == [k |-> k, val |-> val]
HeapObject(array, props) == [array |-> array, props |-> props]

RECURSIVE sanitizeSlots_Shallow(_, _, _, _)
\* Mutant: a nested value is assigned as it is, newObj[key] = obj[key].
sanitizeSlots_Shallow(h, target, slots, array) ==
  IF slots = <<>> THEN h
  ELSE LET s == Head(slots)
           r == IF ~ array /\ s.k \in SENSITIVE_KEYS
                  THEN [heap |-> h, value |-> HeapPrim(REDACTED_PLACEHOLDER)]
                  ELSE [heap |-> h, value |-> s.val]
           h2 == [r.heap EXCEPT ![target].props = Append(@, HeapProp(s.k, r.value))]
       IN sanitizeSlots_Shallow(h2, target, Tail(slots), array)

RECURSIVE sanitizeHeapValue(_, _)
RECURSIVE sanitizeSlots(_, _, _, _)
\* The for...in loop and the map callback: each own property or element of
\* the source is visited in order and the copy at address target receives
\* the placeholder or the sanitized value.
sanitizeSlots(h, target, slots, array) ==
  IF slots = <<>> THEN h
  ELSE LET s == Head(slots)
           r == IF ~ array /\ s.k \in SENSITIVE_KEYS
                  THEN [heap |-> h, value |-> HeapPrim(REDACTED_PLACEHOLDER)]
                  ELSE sanitizeHeapValue(h, s.val)
           h2 == [r.heap EXCEPT ![target].props = Append(@, HeapProp(s.k, r.value))]
       IN sanitizeSlots(h2, target, Tail(slots), array)

\* sanitizeLogObject(obj) run on heap h: the heap it leaves and the value it
\* returns.  A primitive is returned as it is; for an array, map allocates
\* a new array; for any other object, newObj = {} is allocated.
sanitizeHeapValue(h, v) ==
  IF v.t # "ref" THEN [heap |-> h, value |-> v]
  ELSE LET target == Len(h) + 1
           h1 == Append(h, HeapObject(h[v.addr].array, <<>>))
       IN [heap |-> sanitizeSlots(h1, target, h[v.addr].props, h[v.addr].array),
           value |-> Ref(target)]

\* The heaps a call site can have built: at most MaxHeap objects of at most
\* MaxSlots properties, each a primitive or a reference to an object that
\* already exists (so objects may be shared, and there is no cycle).  An
\* object's keys are inserted in the order of HeapKeyOrder.
MaxHeap == 3
HeapKeyOrder == <<"api_key", "user">>
MaxSlots == Len(HeapKeyOrder)
HeapPrims == {HeapPrim("v")}
HeapValues(h) == HeapPrims \cup {Ref(a) : a \in DOMAIN h}

RECURSIVE Reachable(_, _)
\* The addresses of the objects and arrays reachable from a value.
Reachable(h, v) ==
  IF v.t # "ref" THEN {}
  ELSE {v.addr} \cup
       UNION {Reachable(h, h[v.addr].props[i].val) : i \in DOMAIN h[v.addr].props}

RECURSIVE Deref(_, _)
\* The structured value a heap value stands for.
Deref(h, v) ==
  IF v.t # "ref" THEN Str(v.v)
  ELSE IF h[v.addr].array
    THEN Arr([i \in DOMAIN h[v.addr].props |-> Deref(h, h[v.addr].props[i].val)])
  ELSE Obj([i \in DOMAIN h[v.addr].props |->
              Prop(h[v.addr].props[i].k, Deref(h, h[v.addr].props[i].val))])

(***************************************************************************)
(* sanitizeLogObject step by step.  A frame is one activation of the       *)
(* function on an object or array: src is the object it reads, target the  *)
(* copy it fills, next the position of the property or element it visits   *)
(* next.  The stack's last frame is the activation that is running.        *)
(***************************************************************************)
Frame(src, target, next) == [src |-> src, target |-> target, next |-> next]

\* The state of a running call: the heap and the stack.
Running(h, st) == [heap |-> h, stack |-> st]

\* Entering sanitizeLogObject on the object at address a: the copy is
\* allocated and the traversal of a's properties starts.
Enter(h, st, a) ==
  Running(Append(h, HeapObject(h[a].array, <<>>)),
          Append(st, Frame(a, Len(h) + 1, 1)))

\* newObj[key] = value (or the map callback's return) in the running
\* activation, which moves on to the next property.
Store(h, st, value) ==
  LET f == st[Len(st)]
      key == h[f.src].props[f.next].k
  IN Running([h EXCEPT ![f.target].props = Append(@, HeapProp(key, value))],
             [st EXCEPT ![Len(st)].next = f.next + 1])

\* Mutant: a sensitive property is visited again and again.
StepFrame_RevisitsSensitive(h, st) ==
  LET f == st[Len(st)]
      obj == h[f.src]
  IN IF f.next > Len(obj.props)
       THEN IF Len(st) = 1 THEN Running(h, <<>>)
            ELSE Store(h, SubSeq(st, 1, Len(st) - 1), Ref(f.target))
     ELSE IF ~ obj.array /\ obj.props[f.next].k \in SENSITIVE_KEYS
       THEN Running(h, st)
     ELSE IF obj.props[f.next].val.t # "ref"
       THEN Store(h, st, obj.props[f.next].val)
     ELSE Enter(h, st, obj.props[f.next].val.addr)

\* One step of the running activation: it returns its copy to its caller
\* when every property has been visited; otherwise it stores the
\* placeholder for a sensitive key, stores a primitive as it is, or calls
\* sanitizeLogObject on a nested object or array.
StepFrame(h, st) ==
  LET f == st[Len(st)]
      obj == h[f.src]
  IN IF f.next > Len(obj.props)
       THEN IF Len(st) = 1 THEN Running(h, <<>>)
            ELSE Store(h, SubSeq(st, 1, Len(st) - 1), Ref(f.target))
     ELSE IF ~ obj.array /\ obj.props[f.next].k \in SENSITIVE_KEYS
       THEN Store(h, st, HeapPrim(REDACTED_PLACEHOLDER))
     ELSE IF obj.props[f.next].val.t # "ref"
       THEN Store(h, st, obj.props[f.next].val)
     ELSE Enter(h, st, obj.props[f.next].val.addr)

(***************************************************************************)
(* Log payloads: the finite acyclic values of at most MaxNodes nodes built *)
(* from LogPrims, arrays, and objects over LogKeys.  A call site assembles *)
(* its payload node by node; each value has exactly one way to be built    *)
(* (a new node is always the last child of a container on the rightmost    *)
(* branch), and every such value can be built.                             *)
(***************************************************************************)
MaxNodes == 5

LogPrims == {Str("v"), Num("7"), Null}

LogKeys == {"branch_key", "auth_token", "user"}

Leaves == LogPrims \cup {Arr(<<>>), Obj(<<>>)}

RECURSIVE Size(_)
\* The number of nodes of a value.
Size(x) ==
  LET sizes == [i \in 1..(Len(x.items) + Len(x.props)) |->
                  IF i <= Len(x.items) THEN Size(x.items[i])
                  ELSE Size(x.props[i - Len(x.items)].val)]
      sum[i \in 0..Len(sizes)] == IF i = 0 THEN 0 ELSE sum[i - 1] + sizes[i]
  IN 1 + sum[Len(sizes)]

Keys(x) == {x.props[i].k : i \in DOMAIN x.props}

RECURSIVE Grow(_)
\* The values that are x with one more node.
Grow(x) ==
  IF x.t = "array"
    THEN {Arr(Append(x.items, leaf)) : leaf \in Leaves}
         \cup (IF x.items = <<>> THEN {}
               ELSE LET n == Len(x.items)
                    IN {Arr([x.items EXCEPT ![n] = y]) : y \in Grow(x.items[n])})
  ELSE IF x.t = "object"
    THEN {Obj(Append(x.props, Prop(kl[1], kl[2]))) : kl \in (LogKeys \ Keys(x)) \X Leaves}
         \cup (IF x.props = <<>> THEN {}
               ELSE LET n == Len(x.props)
                    IN {Obj([x.props EXCEPT ![n] = Prop(x.props[n].k, y)]) :
                          y \in Grow(x.props[n].val)})
  ELSE {}

(***************************************************************************)
(* Thrown and caught values.                                               *)
(* A caught value is [t, v, isError, isAxiosError, message, response]:     *)
(* t and v as for structured values, isError for `instanceof Error`,       *)
(* isAxiosError for the `isAxiosError === true` mark axios tests, message  *)
(* the `message` property (type and printed form), response the `response` *)
(* property.                                                               *)
(***************************************************************************)
NoStatus == -1

NoResponse == [present |-> FALSE, status |-> 0, statusText |-> "", data |-> Undef]

Response(code, text, body) ==
  [present |-> TRUE, status |-> code, statusText |-> text, data |-> body]

NoMessage == [t |-> "undefined", v |-> ""]
StringMessage(s) == [t |-> "string", v |-> s]
NumberMessage(n) == [t |-> "number", v |-> n]

PrimitiveValue(type, printed) ==
  [t |-> type, v |-> printed, isError |-> FALSE, isAxiosError |-> FALSE,
   message |-> NoMessage, response |-> NoResponse]

PlainObject(msg, axiosMark, resp) ==
  [t |-> "object", v |-> "", isError |-> FALSE, isAxiosError |-> axiosMark,
   message |-> msg, response |-> resp]

\* new Error(msg), or an instance of a subclass of Error
ErrorInstance(msg) ==
  [t |-> "object", v |-> "", isError |-> TRUE, isAxiosError |-> FALSE,
   message |-> StringMessage(msg), response |-> NoResponse]

\* new AxiosError(msg, code, config, request, response)
AxiosError(msg, resp) ==
  [t |-> "object", v |-> "", isError |-> TRUE, isAxiosError |-> TRUE,
   message |-> StringMessage(msg), response |-> resp]

NotCaught == PrimitiveValue("undefined", "undefined")

\* obj?.[key] on a structured value: undefined unless obj is an object
\* holding the key.
Get(obj, key) ==
  IF obj.t = "object" /\ key \in Keys(obj)
    THEN obj.props[CHOOSE i \in DOMAIN obj.props : obj.props[i].k = key].val
    ELSE Undef

\* JS truthiness of a structured value.
TruthyValue(x) ==
  CASE x.t = "string" -> x.v # ""
    [] x.t = "number" -> x.v # "0"
    [] x.t \in {"null", "undefined"} -> FALSE
    [] OTHER -> TRUE

\* String(x), as the Error constructor and template literals apply it.
ToStr(x) ==
  CASE x.t \in {"string", "number", "null", "undefined"} -> x.v
    [] x.t = "object" -> "[object Object]"
    [] OTHER -> ""

(***************************************************************************)
(* src/utils/errors.ts                                                     *)
(***************************************************************************)
\* An Error object as its catcher sees it: class, message, status, response.
NotThrown == [cls |-> "none", message |-> "", status |-> NoStatus, response |-> NoResponse]

\* throw new Error(msg)
PlainError(msg) ==
  [cls |-> "Error", message |-> msg, status |-> NoStatus, response |-> NoResponse]

\* new BranchApiError(msg, {status, response}); new BranchApiError(msg) is
\* BranchApiError(msg, NoStatus, NoResponse).
BranchApiError(msg, code, resp) ==
  [cls |-> "BranchApiError", message |-> msg, status |-> code, response |-> resp]

isErrorWithMessage(error) ==
  error.t = "object" /\ error.message.t = "string"

\* Mutant: the plain-string branch is missing.
getErrorMessage_NoStringBranch(error) ==
  IF error.isError THEN error.message.v
  ELSE IF isErrorWithMessage(error) THEN error.message.v
  ELSE "Unknown error occurred"

getErrorMessage(error) ==
  IF error.isError THEN error.message.v
  ELSE IF isErrorWithMessage(error) THEN error.message.v
  ELSE IF error.t = "string" THEN error.v
  ELSE "Unknown error occurred"

(***************************************************************************)
(* src/utils/api.ts                                                        *)
(***************************************************************************)
\* axios.isAxiosError(payload): an object marked isAxiosError === true
isAxiosError(error) == error.t = "object" /\ error.isAxiosError

getBranchBaseUrl(c) ==
  "https://" \o (IF Truthy(c.branch_url) THEN c.branch_url ELSE "api2.branch.io")

\* Mutant: any caught value with a response is taken for an axios error,
\* and the fallback keeps the status of whatever response there is.
handleApiError_AnyResponse(error) ==
  IF error.response.present
    THEN BranchApiError("Branch API error: " \o ToString(error.response.status)
                          \o " " \o error.response.statusText,
                        error.response.status, error.response)
    ELSE BranchApiError("Branch API error: " \o getErrorMessage(error),
                        NoStatus, NoResponse)

\* The error handleApiError throws; it has no other exit.
handleApiError(error) ==
  IF isAxiosError(error) /\ error.response.present
    THEN BranchApiError("Branch API error: " \o ToString(error.response.status)
                          \o " " \o error.response.statusText,
                        error.response.status, error.response)
    ELSE BranchApiError("Branch API error: " \o getErrorMessage(error),
                        NoStatus, NoResponse)

(***************************************************************************)
(* What the remote API and the transport can answer                        *)
(***************************************************************************)
ErrorBody(msg) == Obj(<<Prop("error", Obj(<<Prop("message", msg)>>))>>)

ResponseBodies ==
  {Undef,
   Str("Bad Request"),
   Obj(<<Prop("error", Str("details"))>>),
   Obj(<<Prop("error", Obj(<<Prop("code", Num("7"))>>))>>),
   ErrorBody(Str("Specific error message")),
   ErrorBody(Str(""))}

StatusLines == {<<400, "Bad Request">>, <<500, "">>}

ErrorResponses ==
  {Response(sl[1], sl[2], body) : sl \in StatusLines, body \in ResponseBodies}

\* What a request can be rejected with: a non-2xx answer, a failure before
\* any answer, or a value that is not an axios error at all.
Rejections ==
  {AxiosError("Request failed with status code " \o ToString(r.status), r) :
     r \in ErrorResponses}
  \cup {AxiosError("Network Error", NoResponse), ErrorInstance("Something went wrong")}

\* What a request can end with.
Fulfilled == [ok |-> TRUE, error |-> NotCaught]
Rejected(e) == [ok |-> FALSE, error |-> e]
RemoteOutcomes == {Fulfilled} \cup {Rejected(e) : e \in Rejections}

\* The values the error helpers are applied to.
CaughtValues ==
  Rejections
  \cup {PlainObject(StringMessage("Object error"), FALSE, NoResponse),
        PlainObject(NumberMessage("123"), FALSE, NoResponse),
        PlainObject(NoMessage, FALSE, NoResponse),
        PrimitiveValue("string", "A string error"),
        PrimitiveValue("string", ""),
        PrimitiveValue("number", "123"),
        PrimitiveValue("null", "null"),
        PrimitiveValue("undefined", "undefined")}
  \cup {PlainObject(m, mark, r) :
          m \in {NoMessage, StringMessage("Object error")},
          mark \in BOOLEAN,
          r \in {Response(400, "Bad Request", ErrorBody(Str("Specific error message")))}}

(***************************************************************************)
(* src/apis/quick-links.ts, src/apis/query.ts: tool handlers.              *)
(* A handler is modelled by what it leaves behind: the requests it issued, *)
(* how it ended, and the error it threw.                                   *)
(***************************************************************************)
NoArgs == [type |-> Undefined, marketing_title |-> Undefined]

ToolArgs ==
  [type : {Undefined, "MARKETING", "ORGANIC"},
   marketing_title : {Undefined, "", "Title"}]

\* Tool params carry branch_key and branch_secret among the credentials.
KeySecretParams ==
  {p \in AuthParams :
     \A f \in AuthFields \ {"branch_key", "branch_secret"} : p[f] = Undefined}

\* A request with the key and secret in its body or query.
Request(method, url, key, secret, a) ==
  [method |-> method, url |-> url, branch_key |-> key, branch_secret |-> secret,
   type |-> a.type, marketing_title |-> a.marketing_title,
   access_token |-> Undefined, app_id |-> Undefined, organization_id |-> Undefined,
   links |-> <<>>]

\* A request with the token in its Access-Token header and the scope
\* identifiers it sends (an undefined query parameter is not sent).
TokenRequest(method, url, token, app, org) ==
  [method |-> method, url |-> url, branch_key |-> Undefined, branch_secret |-> Undefined,
   type |-> Undefined, marketing_title |-> Undefined,
   access_token |-> token, app_id |-> app, organization_id |-> org,
   links |-> <<>>]

\* A request whose body is an array of links.
BulkRequest(method, url, body) ==
  [method |-> method, url |-> url, branch_key |-> Undefined, branch_secret |-> Undefined,
   type |-> Undefined, marketing_title |-> Undefined,
   access_token |-> Undefined, app_id |-> Undefined, organization_id |-> Undefined,
   links |-> body]

Ended(how, reqs, err, e) ==
  [outcome |-> how, requests |-> reqs, caught |-> err, thrown |-> e]

\* The catch block of the quick-link handlers.
QuickLinkCatch(error) ==
  LET nested == Get(Get(error.response.data, "error"), "message")
      msg == IF isAxiosError(error) /\ TruthyValue(nested)
               THEN ToStr(nested)
               ELSE getErrorMessage(error)
  IN IF isAxiosError(error)
       THEN BranchApiError(msg,
                           IF error.response.present THEN error.response.status ELSE 0,
                           error.response)
       ELSE BranchApiError(msg, 0, NoResponse)

branch_create_quick_link(p, a, c, remote) ==
  LET auth == getResolvedAuth(p, c)
      req == Request("POST", getBranchBaseUrl(c) \o "/v1/url",
                     auth.branch_key, auth.branch_secret,
                     [a EXCEPT !.type = IF a.type = "MARKETING" THEN "2" ELSE "0"])
  IN IF ~ Truthy(auth.branch_key) \/ ~ Truthy(auth.branch_secret)
       THEN Ended("throw", <<>>, NotCaught,
                  PlainError("Branch Key and Secret are not configured. Please provide them in the tool parameters or server configuration."))
     ELSE IF a.type = "MARKETING" /\ ~ Truthy(a.marketing_title)
       THEN Ended("throw", <<>>, NotCaught,
                  PlainError("A $marketing_title is required in the data object for links to be visible on the dashboard (when type is MARKETING)."))
     ELSE IF remote.ok
       THEN Ended("return", <<req>>, NotCaught, NotThrown)
     ELSE Ended("throw", <<req>>, remote.error, QuickLinkCatch(remote.error))

branch_query(p, a, c, remote) ==
  LET auth == getResolvedAuth(p, c)
      req == Request("POST", getBranchBaseUrl(c) \o "/v1/query/analytics",
                     auth.branch_key, auth.branch_secret, a)
  IN IF ~ Truthy(auth.branch_key) \/ ~ Truthy(auth.branch_secret)
       THEN Ended("throw", <<>>, NotCaught,
                  PlainError("Branch Key and Secret are not configured. Please provide them in the tool parameters or server configuration."))
     ELSE IF remote.ok
       THEN Ended("return", <<req>>, NotCaught, NotThrown)
     ELSE Ended("throw", <<req>>, remote.error, handleApiError(remote.error))

(***************************************************************************)
(* The other tool handlers.  The params of a tool hold the credential      *)
(* fields its input schema declares.                                       *)
(***************************************************************************)
\* Params whose credential fields are among `fields`.
ToolParams(fields) ==
  {p \in AuthParams : \A f \in AuthFields \ fields : p[f] = Undefined}

KeyParams == ToolParams({"branch_key"})
TokenScopeParams == ToolParams({"api_key", "app_id", "organization_id"})
TokenAppParams == ToolParams({"api_key", "app_id"})
AppTokenParams == ToolParams({"app_id", "auth_token"})

\* appIdOrOrgIdValidator.parse(...) throws this when the refinement fails.
ZodError ==
  [cls |-> "ZodError", message |-> "Either an app_id or an organization_id must be provided.",
   status |-> NoStatus, response |-> NoResponse]

\* appIdOrOrgIdValidator: (data) => !!data.app_id || !!data.organization_id
appIdOrOrgIdValidator(p) == Truthy(p.app_id) \/ Truthy(p.organization_id)

\* if (app_id) queryParams.app_id = app_id
IfTruthy(s) == IF Truthy(s) THEN s ELSE Undefined

\* The catch block of the export, cohort and app handlers.
StatusLineCatch(error, prefix) ==
  IF isAxiosError(error) /\ error.response.present
    THEN BranchApiError("Branch API error: " \o ToString(error.response.status)
                          \o " " \o error.response.statusText,
                        error.response.status, error.response)
    ELSE BranchApiError(prefix \o getErrorMessage(error), NoStatus, NoResponse)

\* The catch block of the cross-event export handlers.
PrefixCatch(error, prefix) ==
  BranchApiError(prefix \o getErrorMessage(error), NoStatus, NoResponse)

\* Mutant: a failed request is issued once more before the error is thrown.
Send_RetryOnce(req, remote, onError) ==
  IF remote.ok
    THEN Ended("return", <<req>>, NotCaught, NotThrown)
    ELSE Ended("throw", <<req, req>>, remote.error, onError)

\* try { await axios...(req) } catch (error) { throw onError(error) }
Send(req, remote, onError) ==
  IF remote.ok
    THEN Ended("return", <<req>>, NotCaught, NotThrown)
    ELSE Ended("throw", <<req>>, remote.error, onError)

\* Mutant: the request goes out before the precondition is checked.
Refuse_AfterRequest(e) ==
  Ended("throw", <<TokenRequest("POST", "", Undefined, Undefined, Undefined)>>, NotCaught, e)

\* A handler that throws before its try block.
Refuse(e) == Ended("throw", <<>>, NotCaught, e)

KeyNotConfigured ==
  "Branch Key is not configured. Please provide it in the tool parameters or server configuration."

ApiKeyMissing == "Branch API Key must be provided in tool parameters."

\* src/apis/app.ts
AppSettings(p, c, remote, method, prefix) ==
  LET auth == getResolvedAuth(p, c)
  IN IF ~ Truthy(auth.branch_key) \/ ~ Truthy(auth.branch_secret)
       THEN Refuse(PlainError("Branch Key and Secret must be provided in tool parameters or server configuration."))
       ELSE Send(Request(method, getBranchBaseUrl(c) \o "/v1/app/" \o auth.branch_key,
                         Undefined, auth.branch_secret, NoArgs),
                 remote, StatusLineCatch(remote.error, prefix))

branch_get_app_settings(p, a, c, remote) ==
  AppSettings(p, c, remote, "GET", "Error getting app settings: ")

branch_update_app_settings(p, a, c, remote) ==
  AppSettings(p, c, remote, "PUT", "Error updating app settings: ")

\* src/apis/data-export.ts
branch_get_daily_exports(p, a, c, remote) ==
  LET resolvedAuth ==
        getResolvedAuth([NoParams EXCEPT !.branch_key = p.branch_key,
                                         !.branch_secret = p.branch_secret], c)
  IN IF ~ Truthy(resolvedAuth.branch_key) \/ ~ Truthy(resolvedAuth.branch_secret)
       THEN Refuse(PlainError("Branch Key and Secret are not configured."))
       ELSE Send(Request("POST", getBranchBaseUrl(c) \o "/v3/export",
                         resolvedAuth.branch_key, resolvedAuth.branch_secret, NoArgs),
                 remote, StatusLineCatch(remote.error, "Error getting daily exports: "))

\* The handlers that take api_key from params and validate the scope; app
\* and org are the scope identifiers the handler puts in the query.
TokenScoped(p, c, remote, method, path, app, org, prefix) ==
  IF ~ Truthy(p.api_key) THEN Refuse(PlainError(ApiKeyMissing))
  ELSE IF ~ appIdOrOrgIdValidator(p) THEN Refuse(ZodError)
  ELSE Send(TokenRequest(method, getBranchBaseUrl(c) \o path, p.api_key, app, org),
            remote, StatusLineCatch(remote.error, prefix))

branch_create_custom_export(p, a, c, remote) ==
  TokenScoped(p, c, remote, "POST", "/v2/logs",
              IfTruthy(p.app_id), IfTruthy(p.organization_id),
              "Error creating custom export: ")

\* queryParams = { ...rest }: the identifiers as given
branch_get_export_status(p, a, c, remote) ==
  TokenScoped(p, c, remote, "GET", "/v2/logs/request_handle",
              p.app_id, p.organization_id, "Error getting export status: ")

branch_check_data_readiness(p, a, c, remote) ==
  IF ~ Truthy(p.api_key) THEN Refuse(PlainError(ApiKeyMissing))
  ELSE Send(TokenRequest("POST", getBranchBaseUrl(c) \o "/v2/data/ready", p.api_key,
                         p.app_id, Undefined),
            remote, StatusLineCatch(remote.error, "Error checking data readiness: "))

\* src/apis/aggregate-exports.ts
branch_create_aggregate_export(p, a, c, remote) ==
  TokenScoped(p, c, remote, "POST", "/v2/analytics",
              IfTruthy(p.app_id), IfTruthy(p.organization_id),
              "Error creating aggregate export: ")

\* queryParams = { ...rest }: the identifiers as given
branch_get_aggregate_export_status(p, a, c, remote) ==
  TokenScoped(p, c, remote, "GET", "/v2/analytics/job_id",
              p.app_id, p.organization_id, "Error getting aggregate export status: ")

\* src/apis/cohort.ts
branch_create_cohort_export(p, a, c, remote) ==
  TokenScoped(p, c, remote, "POST", "/v2/analytics",
              p.app_id, p.organization_id, "Error creating cohort export: ")

branch_get_cohort_export_status(p, a, c, remote) ==
  TokenScoped(p, c, remote, "GET", "/v2/analytics/job_id",
              IfTruthy(p.app_id), IfTruthy(p.organization_id),
              "Error getting cohort export status: ")

\* src/apis/cross-event-exports.ts: the schema is parsed first, then the
\* api_key is checked.
CrossEvent(p, c, remote, method, path, prefix) ==
  IF ~ appIdOrOrgIdValidator(p) THEN Refuse(ZodError)
  ELSE IF ~ Truthy(p.api_key) THEN Refuse(PlainError(ApiKeyMissing))
  ELSE Send(TokenRequest(method, getBranchBaseUrl(c) \o path, p.api_key,
                         p.app_id, p.organization_id),
            remote, PrefixCatch(remote.error, prefix))

branch_create_cross_event_export(p, a, c, remote) ==
  CrossEvent(p, c, remote, "POST", "/v1/branch_aggregate/async/analytics",
             "Error creating cross-event export: ")

branch_get_cross_event_export_status(p, a, c, remote) ==
  CrossEvent(p, c, remote, "GET", "/v1/branch_aggregate/async/status/job_id",
             "Error retrieving cross-event export status: ")

\* src/apis/qr-code.ts
branch_create_qr_code(p, a, c, remote) ==
  LET auth == getResolvedAuth(p, c)
  IN IF ~ Truthy(auth.branch_key) THEN Refuse(PlainError(KeyNotConfigured))
     ELSE Send(Request("POST", getBranchBaseUrl(c) \o "/v2/qr-code",
                       auth.branch_key, Undefined, NoArgs),
               remote, QuickLinkCatch(remote.error))

\* src/apis/deep-linking.ts.  A handler whose credential check sits inside
\* its try block catches its own Error and hands it to handleApiError.
RefuseInTry(msg) ==
  Ended("throw", <<>>, ErrorInstance(msg), handleApiError(ErrorInstance(msg)))

branch_create_deep_link(p, a, c, remote) ==
  LET branch_key == Nullish(p.branch_key, c.branch_key)
  IN IF ~ Truthy(branch_key) THEN RefuseInTry(KeyNotConfigured)
     ELSE Send(Request("POST", getBranchBaseUrl(c) \o "/v1/url", branch_key, Undefined, NoArgs),
               remote, handleApiError(remote.error))

branch_bulk_create_deep_links(p, a, c, remote) ==
  LET branch_key == Nullish(p.branch_key, c.branch_key)
  IN IF ~ Truthy(branch_key) THEN Refuse(PlainError(KeyNotConfigured))
     ELSE Send(Request("POST", getBranchBaseUrl(c) \o "/v1/url/bulk/" \o branch_key,
                       Undefined, Undefined, NoArgs),
               remote, handleApiError(remote.error))

branch_read_deep_link(p, a, c, remote) ==
  LET auth == getResolvedAuth(p, c)
  IN IF ~ Truthy(auth.branch_key) THEN RefuseInTry(KeyNotConfigured)
     ELSE Send(Request("GET", getBranchBaseUrl(c) \o "/v1/url", auth.branch_key, Undefined, NoArgs),
               remote, handleApiError(remote.error))

branch_update_deep_link(p, a, c, remote) ==
  LET auth == getResolvedAuth(p, c)
  IN IF ~ Truthy(auth.branch_key) THEN Refuse(PlainError(KeyNotConfigured))
     ELSE IF ~ Truthy(auth.branch_secret)
       THEN Refuse(PlainError("Branch Secret is not configured and is required for this operation. Please provide it in the tool parameters or server configuration."))
     ELSE Send(Request("PUT", getBranchBaseUrl(c) \o "/v1/url",
                       auth.branch_key, auth.branch_secret, NoArgs),
               remote, handleApiError(remote.error))

branch_delete_deep_link(p, a, c, remote) ==
  LET auth == getResolvedAuth(p, c)
  IN IF ~ Truthy(auth.app_id)
       THEN Refuse(PlainError("Branch App ID is not configured. Please provide it in the tool parameters or server configuration."))
     ELSE IF ~ Truthy(auth.auth_token)
       THEN Refuse(PlainError("Branch Auth Token is not configured. Please provide it in the tool parameters or server configuration."))
     ELSE Send(TokenRequest("DELETE", getBranchBaseUrl(c) \o "/v1/url",
                            auth.auth_token, auth.app_id, Undefined),
               remote, handleApiError(remote.error))

\* src/apis/quick-links.ts, continued.
\* A handler that returns an { isError: true } result instead of throwing.
ErrorResult == Ended("error_result", <<>>, NotCaught, NotThrown)

UrlKinds == {"updatable", "bnc.lt/c/"}

\* Mutant: the PUT is issued whether or not the GET succeeded.
branch_update_quick_link_WriteBlind(p, url, c, remoteGet, remotePut) ==
  LET auth == getResolvedAuth(p, c)
      get == Request("GET", getBranchBaseUrl(c) \o "/v1/url", auth.branch_key, Undefined, NoArgs)
      put == Request("PUT", getBranchBaseUrl(c) \o "/v1/url",
                     auth.branch_key, auth.branch_secret, NoArgs)
  IN IF ~ Truthy(auth.branch_key) THEN Refuse(PlainError(KeyNotConfigured))
     ELSE IF ~ Truthy(auth.branch_secret)
       THEN Refuse(PlainError("Branch Secret is not configured. Please provide it in the tool parameters or server configuration."))
     ELSE IF url = "bnc.lt/c/" THEN ErrorResult
     ELSE IF ~ remotePut.ok
       THEN Ended("throw", <<get, put>>, remotePut.error, QuickLinkCatch(remotePut.error))
     ELSE Ended("return", <<get, put>>, NotCaught, NotThrown)

\* The GET of the existing link, then the PUT of the merged link.
branch_update_quick_link(p, url, c, remoteGet, remotePut) ==
  LET auth == getResolvedAuth(p, c)
      get == Request("GET", getBranchBaseUrl(c) \o "/v1/url", auth.branch_key, Undefined, NoArgs)
      put == Request("PUT", getBranchBaseUrl(c) \o "/v1/url",
                     auth.branch_key, auth.branch_secret, NoArgs)
  IN IF ~ Truthy(auth.branch_key) THEN Refuse(PlainError(KeyNotConfigured))
     ELSE IF ~ Truthy(auth.branch_secret)
       THEN Refuse(PlainError("Branch Secret is not configured. Please provide it in the tool parameters or server configuration."))
     ELSE IF url = "bnc.lt/c/" THEN ErrorResult
     ELSE IF ~ remoteGet.ok
       THEN Ended("throw", <<get>>, remoteGet.error, QuickLinkCatch(remoteGet.error))
     ELSE IF ~ remotePut.ok
       THEN Ended("throw", <<get, put>>, remotePut.error, QuickLinkCatch(remotePut.error))
     ELSE Ended("return", <<get, put>>, NotCaught, NotThrown)

MaxLinks == 2

\* The links of a bulk call: each has a type and may have a $marketing_title.
LinkArgs ==
  [type : {Undefined, "MARKETING"}, marketing_title : {Undefined, "Title"}]

LinkLists == UNION {[1..n -> LinkArgs] : n \in 0..MaxLinks}

\* Mutant: the links are sent as they came.
transformedLinks_AsGiven(links) == links

\* links.map(...): type 2 for a MARKETING link, no type otherwise
transformedLinks(links) ==
  [i \in DOMAIN links |->
     [links[i] EXCEPT !.type = IF links[i].type = "MARKETING" THEN "2" ELSE Undefined]]

branch_bulk_create_quick_links(p, links, c, remote) ==
  LET auth == getResolvedAuth(p, c)
  IN IF ~ Truthy(auth.branch_key) THEN Refuse(PlainError(KeyNotConfigured))
     ELSE IF \E i \in DOMAIN links :
               links[i].type = "MARKETING" /\ ~ Truthy(links[i].marketing_title)
       THEN ErrorResult
     ELSE Send(BulkRequest("POST", getBranchBaseUrl(c) \o "/v1/url/bulk/" \o auth.branch_key,
                           transformedLinks(links)),
               remote, QuickLinkCatch(remote.error))

(***************************************************************************)
(* branch_update_quick_link's PUT body.  A link object is a function from  *)
(* its keys to values; a value is a string or, under data, an object of    *)
(* its own.                                                                *)
(***************************************************************************)
StrValue(str) == [isObj |-> FALSE, str |-> str, obj |-> EmptyObject]
ObjValue(obj) == [isObj |-> TRUE, str |-> "", obj |-> obj]

\* { ...a, ...b }: b's own properties over a's.  The copy is shallow: a
\* property of b replaces a's property of that key whole.
Spread(a, b) ==
  [k \in DOMAIN a \cup DOMAIN b |-> IF k \in DOMAIN b THEN b[k] ELSE a[k]]

\* Mutant: the immutable keys are left in the payload.
DeleteKeys_None(obj, keys) == obj

\* for (const key of keys) delete obj[key]
DeleteKeys(obj, keys) == [k \in DOMAIN obj \ keys |-> obj[k]]

immutableKeys ==
  {"alias", "identity", "type", "app_id", "randomized_bundle_token", "domain", "state",
   "creation_source", "app_short_identifier"}

\* updatedLinkData = { ...existingLinkData, ...link_data, branch_key,
\* branch_secret, url }
updatedLinkData(existing, linkData, branch_key, branch_secret, url) ==
  Spread(Spread(existing, linkData),
         [k \in {"branch_key", "branch_secret", "url"} |->
            CASE k = "branch_key" -> StrValue(branch_key)
              [] k = "branch_secret" -> StrValue(branch_secret)
              [] k = "url" -> StrValue(url)])

\* payload = { ...updatedLinkData } without the immutable keys
updatePayload(existing, linkData, branch_key, branch_secret, url) ==
  DeleteKeys(updatedLinkData(existing, linkData, branch_key, branch_secret, url),
             immutableKeys)

\* The links a GET returns and the link_data a caller passes: any of a few
\* top-level keys, and under data an object over DataKeys.
DataKeys == {"$og_title", "$desktop_url"}
ExistingKeys == {"alias", "type", "channel", "branch_key", "url"}
CallerKeys == {"alias", "channel", "url"}

DataObjects(v) == UNION {[ks -> {StrValue(v)}] : ks \in SUBSET DataKeys}

LinkObjects(keys, v) ==
  UNION {[ks -> {StrValue(v)}] : ks \in SUBSET keys}
  \cup UNION {{Spread(o, [k \in {"data"} |-> ObjValue(d)]) : o \in [ks -> {StrValue(v)}],
                                                           d \in DataObjects(v)} :
              ks \in SUBSET keys}

(***************************************************************************)
(* index.ts, runServer in SSE transport mode: the session map and the two  *)
(* /sse routes.  A connection is one GET /sse request with its response    *)
(* stream; its transport is known by the connection's index.               *)
(***************************************************************************)
MaxConnections == 3

\* The session ids randomUUID() can give, and one id that no transport got.
SessionIds == 1..MaxConnections
UnknownSession == MaxConnections + 1

\* What was done with a POST /sse.
NotPosted == [sessionId |-> UnknownSession, status |-> "none", body |-> "", handledBy |-> 0]
Forwarded(id, transport) ==
  [sessionId |-> id, status |-> "forwarded", body |-> "", handledBy |-> transport]
NotFound(id) ==
  [sessionId |-> id, status |-> "404", body |-> "Session not found", handledBy |-> 0]

\* Mutant: the close listener leaves the map as it is.
MapDelete_Keeps(map, key) == map

\* transports.set(key, value)
MapSet(map, key, value) ==
  [k \in DOMAIN map \cup {key} |-> IF k = key THEN value ELSE map[k]]

\* transports.delete(key)
MapDelete(map, key) == [k \in DOMAIN map \ {key} |-> map[k]]

\* transports.get(key): the transport, or 0 for undefined
MapGet(map, key) == IF key \in DOMAIN map THEN map[key] ELSE 0

\* app.post('/sse'): the answer to a POST that names sessionId
postSse(map, sessionId) ==
  LET transport == MapGet(map, sessionId)
  IN IF transport # 0 THEN Forwarded(sessionId, transport) ELSE NotFound(sessionId)

(***************************************************************************)
(* Concurrent invocations.  The MCP server runs each tool call as an async *)
(* function over the one config object: a handler runs until its next      *)
(* await, other handlers run while it waits for the answer, and it resumes *)
(* with its own locals.  A slot holds one invocation: the arguments, the   *)
(* answers its requests have received, and the requests it has sent.       *)
(***************************************************************************)
MaxInvocations == 2
Invocations == 1..MaxInvocations

ConcurrentTools == {"branch_update_quick_link", "branch_query"}

ConcurrentParams ==
  {p \in KeySecretParams : p.branch_key # "" /\ p.branch_secret # ""}

ConcurrentOutcomes ==
  {Fulfilled, Rejected(AxiosError("Network Error", NoResponse)),
   Rejected(ErrorInstance("Something went wrong"))}

NotEnded == Ended("none", <<>>, NotCaught, NotThrown)

FreeSlot ==
  [status |-> "free", tool |-> "none", params |-> NoParams, url |-> Undefined,
   answers |-> <<>>, sent |-> <<>>, result |-> NotEnded, overlapped |-> FALSE]

\* The handler of a tool run to its end on the answers given (a request
\* beyond them is answered with success).
RunTool(tool, p, u, c, answers) ==
  LET remote == answers \o <<Fulfilled, Fulfilled>>
  IN IF tool = "branch_update_quick_link"
       THEN branch_update_quick_link(p, u, c, remote[1], remote[2])
       ELSE branch_query(p, NoArgs, c, remote[1])

\* The handler runs from where it stands to its next await or to its end:
\* with every request it sent answered it has ended, otherwise it sends the
\* next request, built from the config as it is now, and waits.
Advance(slot, c) ==
  LET run == RunTool(slot.tool, slot.params, slot.url, c, slot.answers)
      n == Len(slot.answers)
  IN IF Len(run.requests) > n
       THEN [slot EXCEPT !.status = "awaiting", !.sent = Append(@, run.requests[n + 1])]
       ELSE [slot EXCEPT !.status = "ended", !.result = [run EXCEPT !.requests = slot.sent]]

\* Mutant: a handler caches the key it resolved on the shared config.
HandlerConfigEffect_CachesKey(tool, p, c) ==
  [c EXCEPT !.branch_key = getResolvedAuth(p, c).branch_key]

\* What a handler leaves in the config object: no handler assigns to it.
HandlerConfigEffect(tool, p, c) == c

(***************************************************************************)
(* src/index.ts: the configuration is read from the environment once       *)
(***************************************************************************)
EnvNames ==
  {"BRANCH_KEY", "BRANCH_URL", "BRANCH_SECRET", "BRANCH_APP_ID", "USER_AUTH_TOKEN",
   "BRANCH_ORGANIZATION_ID"}

\* The variables the README's Server Configuration table documents.
DocumentedEnvNames ==
  {"BRANCH_KEY", "BRANCH_SECRET", "API_KEY", "AUTH_TOKEN", "APP_ID", "ORGANIZATION_ID"}

\* Each variable is unset or set.
AllEnvironments == [EnvNames \cup DocumentedEnvNames -> {Undefined, "env"}]

\* The environments that set none of the variables index.ts does not read.
Environments ==
  {e \in AllEnvironments : \A n \in DocumentedEnvNames \ EnvNames : e[n] = Undefined}

UnsetEnv == [n \in EnvNames \cup DocumentedEnvNames |-> Undefined]

EnvValue(e, name) ==
  IF e[name] = Undefined THEN Undefined ELSE "env_" \o name

DEFAULT_CONFIG == [branch_url |-> "api2.branch.io"]

LoadConfig(e) ==
  [branch_key |-> Nullish(EnvValue(e, "BRANCH_KEY"), ""),
   branch_url |-> IF Truthy(EnvValue(e, "BRANCH_URL"))
                    THEN EnvValue(e, "BRANCH_URL") ELSE DEFAULT_CONFIG.branch_url,
   branch_secret |-> Nullish(EnvValue(e, "BRANCH_SECRET"), ""),
   app_id |-> Nullish(EnvValue(e, "BRANCH_APP_ID"), ""),
   auth_token |-> Nullish(EnvValue(e, "USER_AUTH_TOKEN"), ""),
   organization_id |-> Nullish(EnvValue(e, "BRANCH_ORGANIZATION_ID"), ""),
   api_key |-> Undefined]

(***************************************************************************)
(* Operations.  Every call starts from the idle state, runs to completion  *)
(* and leaves its arguments and result in the state; Return discards the   *)
(* per-invocation values, as the caller does once it has consumed them.    *)
(***************************************************************************)
Idle ==
  /\ op = "idle"
  /\ paramsAtCall = NoParams
  /\ params = NoParams
  /\ resolved = NoParams
  /\ queryParams = EmptyObject
  /\ logIn = Undef
  /\ logOut = Undef
  /\ heap = <<>>
  /\ heapAtCall = <<>>
  /\ heapArg = HeapPrim("undefined")
  /\ heapResult = HeapPrim("undefined")
  /\ stack = <<>>
  /\ info = NoInfo
  /\ applied = <<>>
  /\ written = <<>>
  /\ args = NoArgs
  /\ linkList = <<>>
  /\ linkUrl = Undefined
  /\ requests = <<>>
  /\ existingLinkData = EmptyObject
  /\ link_data = EmptyObject
  /\ payload = EmptyObject
  /\ transports = EmptyObject
  /\ connections = <<>>
  /\ posted = NotPosted
  /\ inFlight = [i \in Invocations |-> FreeSlot]
  /\ caught = NotCaught
  /\ outcome = "none"
  /\ message = ""
  /\ thrown = NotThrown

\* The resolver and the scope builder, over every configuration of the type.
Init ==
  /\ env = UnsetEnv
  /\ config \in BranchMcpConfig
  /\ Idle

CallGetResolvedAuth ==
  /\ op = "idle"
  /\ \E p \in AuthParams :
       LET call == getResolvedAuthCall(p, config) IN
         /\ op' = "getResolvedAuth"
         /\ paramsAtCall' = p
         /\ params' = call.params
         /\ config' = call.config
         /\ resolved' = call.result
         /\ outcome' = call.outcome
         /\ UNCHANGED <<env, queryParams, logVars, toolVars, caught, message, thrown>>

CallGetApiQueryParams ==
  /\ op = "idle"
  /\ \E p \in ScopeParams :
       LET call == getApiQueryParamsCall(p, config) IN
         /\ op' = "getApiQueryParams"
         /\ paramsAtCall' = p
         /\ params' = call.params
         /\ config' = call.config
         /\ queryParams' = call.result
         /\ outcome' = call.outcome
         /\ UNCHANGED <<env, resolved, logVars, toolVars, caught, message, thrown>>

\* A call site starts a log payload ...
NewLogPayload ==
  /\ op = "idle"
  /\ op' = "payload"
  /\ logIn' \in Leaves
  /\ UNCHANGED <<env, config, authVars, logOut, heapVars, pipeVars, toolVars, errVars>>

\* ... and adds a node to it.
GrowLogPayload ==
  /\ op = "payload"
  /\ Size(logIn) < MaxNodes
  /\ logIn' \in Grow(logIn)
  /\ UNCHANGED <<env, config, op, authVars, logOut, heapVars, pipeVars, toolVars, errVars>>

CallSanitizeLogObject ==
  /\ op = "payload"
  /\ op' = "sanitizeLogObject"
  /\ logOut' = sanitizeLogObject(logIn)
  /\ outcome' = "return"
  /\ UNCHANGED <<env, config, authVars, logIn, heapVars, pipeVars, toolVars, caught, message, thrown>>

\* logger.debug / info / error (message, meta): the call site passes the
\* payload it built, as it is.
LoggerCall ==
  /\ op = "payload"
  /\ IsNonNullObject(logIn)
  /\ Size(logIn) <= MaxMetaNodes
  /\ \E level \in LogLevels :
       /\ op' = "logger"
       /\ info' = LogRecord(level, logIn)
  /\ UNCHANGED <<env, config, authVars, logIn, logOut, heapVars, applied, written,
                 toolVars, errVars>>

\* The next format of the pipeline transforms the record.
ApplyFormat ==
  /\ op = "logger"
  /\ Len(applied) < Len(LoggerFormats)
  /\ LET format == LoggerFormats[Len(applied) + 1] IN
       /\ info' = Transform(format, info, logIn)
       /\ applied' = Append(applied, format)
  /\ UNCHANGED <<env, config, op, authVars, logIn, logOut, heapVars, written,
                 toolVars, errVars>>

\* The Console transport writes the serialized record, unless the record's
\* level is filtered out (the threshold is LOG_LEVEL or 'info').
ConsoleWrite ==
  /\ op = "logger"
  /\ Len(applied) = Len(LoggerFormats)
  /\ op' = "logger.write"
  /\ \E pass \in BOOLEAN : written' = IF pass THEN <<info.text>> ELSE <<>>
  /\ outcome' = "return"
  /\ UNCHANGED <<env, config, authVars, logIn, logOut, heapVars, info, applied,
                 toolVars, caught, message, thrown>>

\* A call site allocates an empty object or array ...
AllocateObject ==
  /\ op \in {"idle", "allocating"}
  /\ Len(heap) < MaxHeap
  /\ op' = "allocating"
  /\ \E array \in BOOLEAN : heap' = Append(heap, HeapObject(array, <<>>))
  /\ UNCHANGED <<env, config, authVars, logIn, logOut, heapAtCall, heapArg, heapResult,
                 stack, pipeVars, toolVars, errVars>>

\* ... and gives the newest one another property or element.
AssignProperty ==
  /\ op = "allocating"
  /\ LET a == Len(heap) IN
       /\ Len(heap[a].props) < MaxSlots
       /\ \E val \in HeapValues(SubSeq(heap, 1, a - 1)) :
            \E k \in IF heap[a].array THEN {""}
                     ELSE {HeapKeyOrder[n] : n \in {n \in DOMAIN HeapKeyOrder :
                             \A i \in DOMAIN heap[a].props :
                               \E m \in 1..(n - 1) : HeapKeyOrder[m] = heap[a].props[i].k}} :
              heap' = [heap EXCEPT ![a].props = Append(@, HeapProp(k, val))]
  /\ UNCHANGED <<env, config, op, authVars, logIn, logOut, heapAtCall, heapArg, heapResult,
                 stack, pipeVars, toolVars, errVars>>

\* sanitizeLogObject is called on the payload the call site built: a
\* primitive, or the newest object when everything built is part of it (an
\* object the argument does not reach is never visited).
BeginSanitize ==
  /\ op \in {"idle", "allocating"}
  /\ \E obj \in HeapPrims \cup {Ref(a) : a \in {Len(heap)} \ {0}} :
       /\ obj.t = "ref" => Reachable(heap, obj) = DOMAIN heap
       /\ heapAtCall' = heap
       /\ heapArg' = obj
       /\ IF obj.t # "ref"
            THEN /\ op' = "sanitizeLogObject"
                 /\ heapResult' = obj
                 /\ outcome' = "return"
                 /\ UNCHANGED <<heap, stack>>
            ELSE /\ op' = "sanitizing"
                 /\ heap' = Enter(heap, <<>>, obj.addr).heap
                 /\ stack' = Enter(heap, <<>>, obj.addr).stack
                 /\ UNCHANGED <<heapResult, outcome>>
  /\ UNCHANGED <<env, config, authVars, logIn, logOut, pipeVars, toolVars, caught, message,
                 thrown>>

\* The running call takes its next step; with its last activation done it
\* returns the copy.
StepSanitize ==
  /\ op = "sanitizing"
  /\ LET after == StepFrame(heap, stack) IN
       /\ heap' = after.heap
       /\ stack' = after.stack
       /\ IF after.stack = <<>>
            THEN /\ op' = "sanitizeLogObject"
                 /\ heapResult' = Ref(stack[1].target)
                 /\ outcome' = "return"
            ELSE UNCHANGED <<op, heapResult, outcome>>
  /\ UNCHANGED <<env, config, authVars, logIn, logOut, heapAtCall, heapArg, pipeVars,
                 toolVars, caught, message, thrown>>

CallSanitizeLogObjectOnHeap ==
  /\ op \in {"idle", "allocating"}
  /\ \E obj \in HeapValues(heap) :
       LET r == sanitizeHeapValue(heap, obj) IN
         /\ op' = "sanitizeLogObject"
         /\ heapAtCall' = heap
         /\ heapArg' = obj
         /\ heap' = r.heap
         /\ heapResult' = r.value
         /\ outcome' = "return"
  /\ UNCHANGED <<env, config, authVars, logIn, logOut, stack, pipeVars, toolVars, caught,
                 message, thrown>>

CallGetErrorMessage ==
  /\ op = "idle"
  /\ \E e \in CaughtValues :
       /\ op' = "getErrorMessage"
       /\ caught' = e
       /\ message' = getErrorMessage(e)
       /\ outcome' = "return"
       /\ UNCHANGED <<env, config, authVars, logVars, toolVars, thrown>>

CallHandleApiError ==
  /\ op = "idle"
  /\ \E e \in CaughtValues :
       /\ op' = "handleApiError"
       /\ caught' = e
       /\ thrown' = handleApiError(e)
       /\ outcome' = "throw"
       /\ UNCHANGED <<env, config, authVars, logVars, toolVars, message>>

\* A tool invocation, from the handler's entry to its return or throw.
InvokeWith(tool, p, a, l, u, end) ==
  /\ op = "idle"
  /\ op' = tool
  /\ paramsAtCall' = p
  /\ params' = p
  /\ args' = a
  /\ linkList' = l
  /\ linkUrl' = u
  /\ requests' = end.requests
  /\ caught' = end.caught
  /\ outcome' = end.outcome
  /\ thrown' = end.thrown
  /\ UNCHANGED <<env, config, resolved, queryParams, logVars, inFlight, payloadVars, sseVars,
                 message>>

Invoke(tool, p, a, end) == InvokeWith(tool, p, a, <<>>, Undefined, end)

CallCreateQuickLink ==
  /\ op = "idle"
  /\ \E p \in KeySecretParams, a \in ToolArgs, remote \in RemoteOutcomes :
    Invoke("branch_create_quick_link", p, a,
           branch_create_quick_link(p, a, config, remote))

CallQuery ==
  /\ op = "idle"
  /\ \E p \in KeySecretParams, remote \in RemoteOutcomes :
    Invoke("branch_query", p, NoArgs, branch_query(p, NoArgs, config, remote))

CallUpdateQuickLink ==
  /\ op = "idle"
  /\ \E p \in KeySecretParams, u \in UrlKinds, remoteGet, remotePut \in RemoteOutcomes :
    InvokeWith("branch_update_quick_link", p, NoArgs, <<>>, u,
               branch_update_quick_link(p, u, config, remoteGet, remotePut))

CallBulkCreateQuickLinks ==
  /\ op = "idle"
  /\ \E p \in KeyParams, l \in LinkLists, remote \in RemoteOutcomes :
    InvokeWith("branch_bulk_create_quick_links", p, NoArgs, l, Undefined,
               branch_bulk_create_quick_links(p, l, config, remote))

CallGetAppSettings ==
  /\ op = "idle"
  /\ \E p \in KeySecretParams, remote \in RemoteOutcomes :
    Invoke("branch_get_app_settings", p, NoArgs,
           branch_get_app_settings(p, NoArgs, config, remote))

CallUpdateAppSettings ==
  /\ op = "idle"
  /\ \E p \in KeySecretParams, remote \in RemoteOutcomes :
    Invoke("branch_update_app_settings", p, NoArgs,
           branch_update_app_settings(p, NoArgs, config, remote))

CallGetDailyExports ==
  /\ op = "idle"
  /\ \E p \in KeySecretParams, remote \in RemoteOutcomes :
    Invoke("branch_get_daily_exports", p, NoArgs,
           branch_get_daily_exports(p, NoArgs, config, remote))

CallCreateCustomExport ==
  /\ op = "idle"
  /\ \E p \in TokenScopeParams, remote \in RemoteOutcomes :
    Invoke("branch_create_custom_export", p, NoArgs,
           branch_create_custom_export(p, NoArgs, config, remote))

CallGetExportStatus ==
  /\ op = "idle"
  /\ \E p \in TokenScopeParams, remote \in RemoteOutcomes :
    Invoke("branch_get_export_status", p, NoArgs,
           branch_get_export_status(p, NoArgs, config, remote))

\* app_id is a required string of this tool's input schema.
CallCheckDataReadiness ==
  /\ op = "idle"
  /\ \E p \in {q \in TokenAppParams : q.app_id # Undefined}, remote \in RemoteOutcomes :
    Invoke("branch_check_data_readiness", p, NoArgs,
           branch_check_data_readiness(p, NoArgs, config, remote))

CallCreateAggregateExport ==
  /\ op = "idle"
  /\ \E p \in TokenScopeParams, remote \in RemoteOutcomes :
    Invoke("branch_create_aggregate_export", p, NoArgs,
           branch_create_aggregate_export(p, NoArgs, config, remote))

CallGetAggregateExportStatus ==
  /\ op = "idle"
  /\ \E p \in TokenScopeParams, remote \in RemoteOutcomes :
    Invoke("branch_get_aggregate_export_status", p, NoArgs,
           branch_get_aggregate_export_status(p, NoArgs, config, remote))

CallCreateCohortExport ==
  /\ op = "idle"
  /\ \E p \in TokenScopeParams, remote \in RemoteOutcomes :
    Invoke("branch_create_cohort_export", p, NoArgs,
           branch_create_cohort_export(p, NoArgs, config, remote))

CallGetCohortExportStatus ==
  /\ op = "idle"
  /\ \E p \in TokenScopeParams, remote \in RemoteOutcomes :
    Invoke("branch_get_cohort_export_status", p, NoArgs,
           branch_get_cohort_export_status(p, NoArgs, config, remote))

CallCreateCrossEventExport ==
  /\ op = "idle"
  /\ \E p \in TokenScopeParams, remote \in RemoteOutcomes :
    Invoke("branch_create_cross_event_export", p, NoArgs,
           branch_create_cross_event_export(p, NoArgs, config, remote))

CallGetCrossEventExportStatus ==
  /\ op = "idle"
  /\ \E p \in TokenScopeParams, remote \in RemoteOutcomes :
    Invoke("branch_get_cross_event_export_status", p, NoArgs,
           branch_get_cross_event_export_status(p, NoArgs, config, remote))

CallCreateQrCode ==
  /\ op = "idle"
  /\ \E p \in KeyParams, remote \in RemoteOutcomes :
    Invoke("branch_create_qr_code", p, NoArgs,
           branch_create_qr_code(p, NoArgs, config, remote))

CallCreateDeepLink ==
  /\ op = "idle"
  /\ \E p \in KeyParams, remote \in RemoteOutcomes :
    Invoke("branch_create_deep_link", p, NoArgs,
           branch_create_deep_link(p, NoArgs, config, remote))

CallBulkCreateDeepLinks ==
  /\ op = "idle"
  /\ \E p \in KeyParams, remote \in RemoteOutcomes :
    Invoke("branch_bulk_create_deep_links", p, NoArgs,
           branch_bulk_create_deep_links(p, NoArgs, config, remote))

CallReadDeepLink ==
  /\ op = "idle"
  /\ \E p \in KeyParams, remote \in RemoteOutcomes :
    Invoke("branch_read_deep_link", p, NoArgs,
           branch_read_deep_link(p, NoArgs, config, remote))

CallUpdateDeepLink ==
  /\ op = "idle"
  /\ \E p \in KeySecretParams, remote \in RemoteOutcomes :
    Invoke("branch_update_deep_link", p, NoArgs,
           branch_update_deep_link(p, NoArgs, config, remote))

CallDeleteDeepLink ==
  /\ op = "idle"
  /\ \E p \in AppTokenParams, remote \in RemoteOutcomes :
    Invoke("branch_delete_deep_link", p, NoArgs,
           branch_delete_deep_link(p, NoArgs, config, remote))

\* branch_update_quick_link with the link its GET returns and the link_data
\* in its params; the PUT is answered with success.
CallUpdateQuickLinkWithData ==
  /\ op = "idle"
  /\ \E p \in ConcurrentParams, existing \in LinkObjects(ExistingKeys, "existing"),
        linkData \in LinkObjects(CallerKeys, "caller") :
       LET end == branch_update_quick_link(p, "updatable", config, Fulfilled, Fulfilled)
           auth == getResolvedAuth(p, config)
       IN /\ op' = "branch_update_quick_link"
          /\ paramsAtCall' = p
          /\ params' = p
          /\ linkUrl' = "updatable"
          /\ link_data' = linkData
          /\ requests' = end.requests
          /\ caught' = end.caught
          /\ outcome' = end.outcome
          /\ thrown' = end.thrown
          /\ IF Len(end.requests) = 2
               THEN /\ existingLinkData' = existing
                    /\ payload' = updatePayload(existing, linkData, auth.branch_key,
                                                auth.branch_secret, "updatable")
               ELSE UNCHANGED <<existingLinkData, payload>>
  /\ UNCHANGED <<env, config, resolved, queryParams, logVars, args, linkList, inFlight,
                 sseVars, message>>

\* GET /sse: a transport with a fresh sessionId is put in the map and the
\* close listener is registered, both before the await; server.connect then
\* resolves or rejects.
GetSse ==
  /\ Len(connections) < MaxConnections
  /\ \E id \in SessionIds \ {connections[c].sessionId : c \in DOMAIN connections},
        connect \in {"resolved", "rejected"} :
       /\ connections' = Append(connections,
                                [sessionId |-> id, open |-> TRUE, connect |-> connect])
       /\ transports' = MapSet(transports, id, Len(connections) + 1)
  /\ op' = "GET /sse"
  /\ UNCHANGED <<env, config, authVars, logVars, args, linkList, linkUrl, requests, inFlight,
                 payloadVars, posted, errVars>>

\* req.on('close'): the connection's close event, once per connection
CloseSse ==
  /\ \E c \in DOMAIN connections :
       /\ connections[c].open
       /\ connections' = [connections EXCEPT ![c].open = FALSE]
       /\ transports' = MapDelete(transports, connections[c].sessionId)
  /\ op' = "close"
  /\ UNCHANGED <<env, config, authVars, logVars, args, linkList, linkUrl, requests, inFlight,
                 payloadVars, posted, errVars>>

\* POST /sse?sessionId=...
PostSse ==
  /\ \E id \in SessionIds \cup {UnknownSession} :
       posted' = postSse(transports, id)
  /\ op' = "POST /sse"
  /\ UNCHANGED <<env, config, authVars, logVars, args, linkList, linkUrl, requests, inFlight,
                 payloadVars, transports, connections, errVars>>

\* A tool call arrives and its handler runs to its first await or to its end.
StartInvocation ==
  \E i \in Invocations, tool \in ConcurrentTools, p \in ConcurrentParams, u \in UrlKinds :
    /\ inFlight[i].status = "free"
    /\ tool = "branch_query" => u = "updatable"
    /\ LET started == Advance([FreeSlot EXCEPT !.tool = tool, !.params = p, !.url = u],
                              config)
           overlap == \E j \in Invocations \ {i} : inFlight[j].status = "awaiting"
       IN inFlight' = [j \in Invocations |->
                      IF j = i THEN [started EXCEPT !.overlapped = overlap]
                      ELSE IF inFlight[j].status = "awaiting"
                        THEN [inFlight[j] EXCEPT !.overlapped = TRUE]
                      ELSE inFlight[j]]
    /\ config' = HandlerConfigEffect(tool, p, config)
    /\ UNCHANGED <<env, op, authVars, logVars, args, linkList, linkUrl, requests,
                   payloadVars, sseVars, errVars>>

\* The request a handler waits for is answered and the handler resumes.
ResumeInvocation ==
  \E i \in Invocations, remote \in ConcurrentOutcomes :
    /\ inFlight[i].status = "awaiting"
    /\ inFlight' = [inFlight EXCEPT
                   ![i] = Advance([inFlight[i] EXCEPT !.answers = Append(@, remote)], config)]
    /\ config' = HandlerConfigEffect(inFlight[i].tool, inFlight[i].params, config)
    /\ UNCHANGED <<env, op, authVars, logVars, args, linkList, linkUrl, requests,
                   payloadVars, sseVars, errVars>>

\* The caller takes the result of an invocation that ended.
CollectInvocation ==
  \E i \in Invocations :
    /\ inFlight[i].status = "ended"
    /\ inFlight' = [inFlight EXCEPT ![i] = FreeSlot]
    /\ UNCHANGED <<env, config, op, authVars, logVars, args, linkList, linkUrl, requests,
                   payloadVars, sseVars,
                   errVars>>

Return ==
  /\ op \notin {"idle", "payload", "sanitizing"}
  /\ op' = "idle"
  /\ paramsAtCall' = NoParams
  /\ params' = NoParams
  /\ resolved' = NoParams
  /\ queryParams' = EmptyObject
  /\ logIn' = Undef
  /\ logOut' = Undef
  /\ heap' = <<>>
  /\ heapAtCall' = <<>>
  /\ heapArg' = HeapPrim("undefined")
  /\ heapResult' = HeapPrim("undefined")
  /\ stack' = <<>>
  /\ info' = NoInfo
  /\ applied' = <<>>
  /\ written' = <<>>
  /\ args' = NoArgs
  /\ linkList' = <<>>
  /\ linkUrl' = Undefined
  /\ requests' = <<>>
  /\ existingLinkData' = EmptyObject
  /\ link_data' = EmptyObject
  /\ payload' = EmptyObject
  /\ UNCHANGED sseVars
  /\ inFlight' = [i \in Invocations |-> FreeSlot]
  /\ caught' = NotCaught
  /\ outcome' = "none"
  /\ message' = ""
  /\ thrown' = NotThrown
  /\ UNCHANGED <<env, config>>

Next ==
  \/ CallGetResolvedAuth
  \/ CallGetApiQueryParams
  \/ Return

Spec == Init /\ [][Next]_vars

\* The redactor on its own: it reads no configuration.
UnsetConfig == LoadConfig(UnsetEnv)

InitLog ==
  /\ env = UnsetEnv
  /\ config = UnsetConfig
  /\ Idle

NextLog ==
  \/ NewLogPayload
  \/ GrowLogPayload
  \/ CallSanitizeLogObject
  \/ Return

SpecLog == InitLog /\ [][NextLog]_vars

\* The redactor run on objects that have identity.
NextHeap ==
  \/ AllocateObject
  \/ AssignProperty
  \/ CallSanitizeLogObjectOnHeap
  \/ Return

SpecHeap == InitLog /\ [][NextHeap]_vars

\* The redactor run step by step.  The function is synchronous: once called
\* it keeps running until it returns.
NextTerminate ==
  \/ AllocateObject
  \/ AssignProperty
  \/ BeginSanitize
  \/ StepSanitize
  \/ Return

SpecTerminate == InitLog /\ [][NextTerminate]_vars /\ WF_vars(StepSanitize)

\* The logger called with the payloads the call sites build.
NextLogger ==
  \/ NewLogPayload
  \/ GrowLogPayload
  \/ LoggerCall
  \/ ApplyFormat
  \/ ConsoleWrite
  \/ Return

SpecLogger == InitLog /\ [][NextLogger]_vars

\* The error helpers and the tool handlers of the running server, whose
\* configuration comes from the environment.
InitServer ==
  /\ env \in Environments
  /\ config = LoadConfig(env)
  /\ Idle

NextServer ==
  \/ CallGetErrorMessage
  \/ CallHandleApiError
  \/ CallCreateQuickLink
  \/ CallUpdateQuickLink
  \/ CallBulkCreateQuickLinks
  \/ CallQuery
  \/ CallGetAppSettings
  \/ CallUpdateAppSettings
  \/ CallGetDailyExports
  \/ CallCreateCustomExport
  \/ CallGetExportStatus
  \/ CallCheckDataReadiness
  \/ CallCreateAggregateExport
  \/ CallGetAggregateExportStatus
  \/ CallCreateCohortExport
  \/ CallGetCohortExportStatus
  \/ CallCreateCrossEventExport
  \/ CallGetCrossEventExportStatus
  \/ CallCreateQrCode
  \/ CallCreateDeepLink
  \/ CallBulkCreateDeepLinks
  \/ CallReadDeepLink
  \/ CallUpdateDeepLink
  \/ CallDeleteDeepLink
  \/ Return

SpecServer == InitServer /\ [][NextServer]_vars

\* The tool handlers of a server started with any of the documented or the
\* read credential variables set, at the default base URL.
InitEnv ==
  /\ env \in {e \in AllEnvironments : e["BRANCH_URL"] = Undefined}
  /\ config = LoadConfig(env)
  /\ Idle

NextEnv ==
  \/ CallCreateQuickLink
  \/ CallQuery
  \/ CallGetDailyExports
  \/ CallCreateCustomExport
  \/ CallCreateAggregateExport
  \/ CallCreateCohortExport
  \/ CallCreateCrossEventExport
  \/ CallCreateQrCode
  \/ CallReadDeepLink
  \/ CallDeleteDeepLink
  \/ Return

SpecEnv == InitEnv /\ [][NextEnv]_vars

\* Tool calls that overlap in time, on a server whose key and secret may be
\* configured.
InitConcurrent ==
  /\ env \in {e \in Environments :
                \A n \in EnvNames \ {"BRANCH_KEY", "BRANCH_SECRET"} : e[n] = Undefined}
  /\ config = LoadConfig(env)
  /\ Idle

NextConcurrent ==
  \/ StartInvocation
  \/ ResumeInvocation
  \/ CollectInvocation

SpecConcurrent == InitConcurrent /\ [][NextConcurrent]_vars

\* The update handler with the data it merges.
NextPayload ==
  \/ CallUpdateQuickLinkWithData
  \/ Return

SpecPayload == InitConcurrent /\ [][NextPayload]_vars

\* The server in SSE transport mode: connections open and close, and
\* messages are posted, in any order.
NextSse ==
  \/ GetSse
  \/ CloseSse
  \/ PostSse

SpecSse == InitConcurrent /\ [][NextSse]_vars

(***************************************************************************)
(* Claims about the credential resolver and the scope builder (Spec)       *)
(***************************************************************************)
FieldPrecedence(F) ==
  resolved[F] = IF params[F] # Undefined THEN params[F] ELSE config[F]

\* The first present value of a sequence of optional strings, else undefined.
FirstPresent(chain) ==
  LET present == {i \in 1..Len(chain) : chain[i] # Undefined}
  IN IF present = {} THEN Undefined
     ELSE chain[CHOOSE i \in present : \A j \in present : i <= j]

\* C1 as stated: every one of the six credential fields of the result,
\* api_key and auth_token included, is the caller's value if present, else
\* the configured value of that same field, else absent.
C1_Original ==
  op = "getResolvedAuth" => \A F \in AuthFields : FieldPrecedence(F)

\* C1 amended: branch_key, branch_secret, app_id and organization_id are the
\* caller's value if present, else the configured value of that field, else
\* absent; api_key and auth_token are instead both the first present value
\* among params.api_key, params.auth_token, config.api_key, config.auth_token.
C1_FieldPrecedence ==
  op = "getResolvedAuth" =>
    /\ \A F \in {"branch_key", "branch_secret", "app_id", "organization_id"} :
         FieldPrecedence(F)
    /\ \A F \in {"api_key", "auth_token"} :
         resolved[F] = FirstPresent(<<params.api_key, params.auth_token,
                                      config.api_key, config.auth_token>>)

C1_Witness ==
  /\ op = "getResolvedAuth"
  /\ params.branch_key = "params_branch_key"
  /\ config.branch_key = "config_branch_key"
  /\ params.branch_secret = Undefined
  /\ config.branch_secret = ""
  /\ params.app_id = Undefined
  /\ config.app_id = Undefined
  /\ resolved.branch_key = "params_branch_key"
  /\ resolved.branch_secret = ""
  /\ resolved.app_id = Undefined

\* C2: the api_key slot and the auth_token slot of every result of
\* getResolvedAuth hold the same value (the same string, or both absent).
C2_SynonymSlotsEqual ==
  op = "getResolvedAuth" => resolved.api_key = resolved.auth_token

C2_Witness ==
  /\ op = "getResolvedAuth"
  /\ params.api_key = "params_api_key"
  /\ params.auth_token = "params_auth_token"
  /\ config.auth_token = "config_auth_token"
  /\ resolved.auth_token = "params_api_key"

\* C3: the resolved access token is the first present value in the order
\* params.api_key, params.auth_token, config.api_key, config.auth_token: a
\* caller's auth_token wins over a configured api_key, and a configured
\* auth_token is used when nothing else is present.
C3_SynonymOrder ==
  op = "getResolvedAuth" =>
    /\ resolved.api_key =
         FirstPresent(<<params.api_key, params.auth_token,
                        config.api_key, config.auth_token>>)
    /\ (params.api_key = Undefined /\ params.auth_token # Undefined)
         => resolved.api_key = params.auth_token
    /\ (params.api_key = Undefined /\ params.auth_token = Undefined
          /\ config.api_key = Undefined)
         => resolved.api_key = config.auth_token

C3_Witness ==
  /\ op = "getResolvedAuth"
  /\ params.api_key = Undefined
  /\ params.auth_token = "params_auth_token"
  /\ config.api_key = "config_api_key"
  /\ resolved.api_key = "params_auth_token"

\* C4: when an app_id is resolvable (a non-empty app_id in params or in
\* config, the code's test), the result of getApiQueryParams has app_id as
\* its only key, holding params.app_id if supplied and else config.app_id,
\* whatever organization_id is supplied; no result holds both keys.
C4_AppIdOnly ==
  op = "getApiQueryParams" =>
    /\ ~ ({"app_id", "organization_id"} \subseteq DOMAIN queryParams)
    /\ (Truthy(params.app_id) \/ Truthy(config.app_id)) =>
         /\ DOMAIN queryParams = {"app_id"}
         /\ queryParams.app_id =
              IF Truthy(params.app_id) THEN params.app_id ELSE config.app_id

C4_Witness ==
  /\ op = "getApiQueryParams"
  /\ params.app_id = Undefined
  /\ config.app_id = "config_app_id"
  /\ params.organization_id = "params_organization_id"
  /\ config.organization_id = "config_organization_id"
  /\ queryParams = [app_id |-> "config_app_id"]

\* C5: when no app_id is resolvable, the result of getApiQueryParams is
\* {organization_id: params.organization_id} if supplied, else
\* {organization_id: config.organization_id} if configured, else {}.
C5_OrganizationFallback ==
  (op = "getApiQueryParams" /\ ~ Truthy(params.app_id) /\ ~ Truthy(config.app_id)) =>
    queryParams =
      IF Truthy(params.organization_id)
        THEN [organization_id |-> params.organization_id]
      ELSE IF Truthy(config.organization_id)
        THEN [organization_id |-> config.organization_id]
      ELSE EmptyObject

C5_Witness ==
  /\ op = "getApiQueryParams"
  /\ ~ Truthy(params.app_id)
  /\ ~ Truthy(config.app_id)
  /\ params.organization_id = "params_organization_id"
  /\ config.organization_id = "config_organization_id"
  /\ queryParams = [organization_id |-> "params_organization_id"]

(***************************************************************************)
(* Claims about the log redactor (SpecLog)                                 *)
(***************************************************************************)
RECURSIVE SensitiveRedacted(_)
\* Every value under a sensitive key, at any depth, is the placeholder.
SensitiveRedacted(x) ==
  /\ x.t = "array" => \A i \in DOMAIN x.items : SensitiveRedacted(x.items[i])
  /\ x.t = "object" =>
       \A i \in DOMAIN x.props :
         IF x.props[i].k \in SENSITIVE_KEYS
           THEN x.props[i].val = Str("[REDACTED]")
           ELSE SensitiveRedacted(x.props[i].val)

RECURSIVE HoldsSensitive(_, _)
\* x holds, d or more levels down, a sensitive key whose value is not a string.
HoldsSensitive(x, d) ==
  \/ /\ d <= 0
     /\ x.t = "object"
     /\ \E i \in DOMAIN x.props :
          x.props[i].k \in SENSITIVE_KEYS /\ x.props[i].val.t # "string"
  \/ x.t = "array" /\ \E i \in DOMAIN x.items : HoldsSensitive(x.items[i], d - 1)
  \/ /\ x.t = "object"
     /\ \E i \in DOMAIN x.props :
          x.props[i].k \notin SENSITIVE_KEYS /\ HoldsSensitive(x.props[i].val, d - 1)

\* C6: in the output of sanitizeLogObject every value stored under a
\* sensitive key, at any nesting depth and inside any array element, is the
\* placeholder '[REDACTED]', whatever the type of the original value.
C6_SensitiveRedacted ==
  op = "sanitizeLogObject" => SensitiveRedacted(logOut)

C6_Witness ==
  /\ op = "sanitizeLogObject"
  /\ logIn.t = "array"
  /\ HoldsSensitive(logIn, 2)
  /\ SensitiveRedacted(logOut)

RECURSIVE Preserved(_, _)
\* y is x with nothing changed but the values under sensitive keys.
Preserved(x, y) ==
  /\ y.t = x.t
  /\ ~ IsNonNullObject(x) => y = x
  /\ x.t = "array" =>
       /\ Len(y.items) = Len(x.items)
       /\ \A i \in DOMAIN x.items : Preserved(x.items[i], y.items[i])
  /\ x.t = "object" =>
       /\ Len(y.props) = Len(x.props)
       /\ \A i \in DOMAIN x.props :
            /\ y.props[i].k = x.props[i].k
            /\ x.props[i].k \notin SENSITIVE_KEYS
                 => Preserved(x.props[i].val, y.props[i].val)

\* C7: sanitizeLogObject keeps everything that is not under a sensitive key:
\* each object of the output has exactly the keys of the input object, each
\* array the same length and element order, each primitive not under a
\* sensitive key is equal to the input's; a non-object input is returned
\* unchanged.
C7_NonSensitivePreserved ==
  op = "sanitizeLogObject" => Preserved(logIn, logOut)

C7_Witness ==
  /\ op = "sanitizeLogObject"
  /\ logIn = Obj(<<Prop("auth_token", Str("v")),
                   Prop("user", Arr(<<Num("7"), Null>>))>>)
  /\ logOut = Obj(<<Prop("auth_token", Str("[REDACTED]")),
                    Prop("user", Arr(<<Num("7"), Null>>))>>)

(***************************************************************************)
(* Claims about the error helpers and the errors tools throw, SpecServer   *)
(***************************************************************************)
\* C8: getErrorMessage always returns, never throws: the message of an Error
\* instance or of an object with a string message property, the value itself
\* for a string, and 'Unknown error occurred' for every other value.
C8_MessageExtraction ==
  op = "getErrorMessage" =>
    /\ outcome = "return"
    /\ thrown = NotThrown
    /\ message =
         (IF caught.isError \/ (caught.t = "object" /\ caught.message.t = "string")
            THEN caught.message.v
          ELSE IF caught.t = "string" THEN caught.v
          ELSE "Unknown error occurred")

\* getErrorMessage has returned a thrown string verbatim.
C8_Witness ==
  /\ op = "getErrorMessage"
  /\ caught = PrimitiveValue("string", "A string error")
  /\ message = "A string error"

\* C9: handleApiError never returns: it throws a BranchApiError, which for an
\* axios error with a response has the message 'Branch API error: <status>
\* <statusText>', the response's status and the response attached, and for
\* every other input has the message 'Branch API error: ' followed by
\* getErrorMessage(input), no status and no response.
C9_AlwaysThrowsBranchApiError ==
  op = "handleApiError" =>
    /\ outcome = "throw"
    /\ thrown.cls = "BranchApiError"
    /\ IF caught.t = "object" /\ caught.isAxiosError /\ caught.response.present
         THEN /\ thrown.message = "Branch API error: " \o ToString(caught.response.status)
                                    \o " " \o caught.response.statusText
              /\ thrown.status = caught.response.status
              /\ thrown.response = caught.response
         ELSE /\ thrown.message = "Branch API error: " \o getErrorMessage(caught)
              /\ thrown.status = NoStatus
              /\ thrown.response = NoResponse

\* handleApiError was given an object that has a response but is no axios
\* error, and threw the error without status.
C9_Witness ==
  /\ op = "handleApiError"
  /\ ~ caught.isAxiosError
  /\ caught.response.present
  /\ thrown = BranchApiError("Branch API error: Object error", NoStatus, NoResponse)

\* The string at error.message of the response body the failed request got.
HasBodyMessage(error) ==
  /\ error.response.present
  /\ Get(Get(error.response.data, "error"), "message").t = "string"

BodyMessage(error) == Get(Get(error.response.data, "error"), "message").v

\* C10: whenever the remote error response body holds a string at
\* error.message, the error thrown to the caller by handleApiError and by
\* every tool handler has that string as its message.
C10_BodyMessagePreferred ==
  (/\ op \in {"handleApiError", "branch_create_quick_link", "branch_query"}
   /\ outcome = "throw"
   /\ isAxiosError(caught)
   /\ HasBodyMessage(caught))
    => thrown.message = BodyMessage(caught)

(***************************************************************************)
(* Claims about every tool handler, SpecServer                             *)
(***************************************************************************)
KeySecretTools ==
  {"branch_create_quick_link", "branch_update_quick_link", "branch_query",
   "branch_get_app_settings", "branch_update_app_settings",
   "branch_get_daily_exports", "branch_update_deep_link"}

KeyTools ==
  {"branch_bulk_create_quick_links", "branch_create_qr_code", "branch_create_deep_link",
   "branch_bulk_create_deep_links", "branch_read_deep_link"}

TokenTools ==
  {"branch_create_custom_export", "branch_get_export_status",
   "branch_check_data_readiness", "branch_create_aggregate_export",
   "branch_get_aggregate_export_status", "branch_create_cohort_export",
   "branch_get_cohort_export_status", "branch_create_cross_event_export",
   "branch_get_cross_event_export_status"}

ScopedTools == TokenTools \ {"branch_check_data_readiness"}

Tools == KeySecretTools \cup KeyTools \cup TokenTools \cup {"branch_delete_deep_link"}

\* The call ended with an error thrown to its caller.
Threw == outcome = "throw"

\* The request was answered: the handler caught an axios error with a response.
ServerResponded == Threw /\ isAxiosError(caught) /\ caught.response.present

\* C11: for every error a tool handler or handleApiError throws, the status
\* field is present if and only if the remote server returned an HTTP
\* response; it is absent for caller errors and for network failures.
C11_StatusDiscriminates ==
  (op \in Tools \cup {"handleApiError"} /\ Threw) =>
    (thrown.status # NoStatus <=> ServerResponded)

\* C12: for every tool, when the remote endpoint answers the request with a
\* non-2xx response, the error thrown is a BranchApiError carrying that
\* response's status code and the response itself.
C12_ResponseStatusCarried ==
  (op \in Tools /\ ServerResponded) =>
    /\ thrown.cls = "BranchApiError"
    /\ thrown.status = caught.response.status
    /\ thrown.response = caught.response

\* A credential the tool requires has no non-empty value in the params nor,
\* for the tools that fall back to it, in the config.
CredentialMissing ==
  \/ /\ op \in KeySecretTools \cup KeyTools
     /\ ~ Truthy(Nullish(params.branch_key, config.branch_key))
  \/ /\ op \in KeySecretTools
     /\ ~ Truthy(Nullish(params.branch_secret, config.branch_secret))
  \/ /\ op \in TokenTools
     /\ ~ Truthy(params.api_key)
  \/ /\ op = "branch_delete_deep_link"
     /\ \/ ~ Truthy(Nullish(params.app_id, config.app_id))
        \/ ~ Truthy(FirstPresent(<<params.api_key, params.auth_token,
                                   config.api_key, config.auth_token>>))

ScopeMissing ==
  op \in ScopedTools /\ ~ Truthy(params.app_id) /\ ~ Truthy(params.organization_id)

TitleMissing ==
  \/ /\ op = "branch_create_quick_link"
     /\ args.type = "MARKETING"
     /\ ~ Truthy(args.marketing_title)
  \/ /\ op = "branch_bulk_create_quick_links"
     /\ \E i \in DOMAIN linkList :
          linkList[i].type = "MARKETING" /\ ~ Truthy(linkList[i].marketing_title)

C14_CallerErrorStaysPlain ==
  (op \in Tools /\ CredentialMissing) =>
    /\ Threw
    /\ thrown.cls # "BranchApiError"
    /\ caught = NotCaught

(***************************************************************************)
(* Claims about the documented environment variables, SpecEnv              *)
(***************************************************************************)
\* The credential each documented variable is said to default.
DocumentedField(v) ==
  CASE v = "BRANCH_KEY" -> "branch_key"
    [] v = "BRANCH_SECRET" -> "branch_secret"
    [] v = "API_KEY" -> "api_key"
    [] v = "AUTH_TOKEN" -> "auth_token"
    [] v = "APP_ID" -> "app_id"
    [] v = "ORGANIZATION_ID" -> "organization_id"

DocumentedVariable(f) == CHOOSE v \in DocumentedEnvNames : DocumentedField(v) = f

\* The credentials a tool requires.
RequiredCredentials(tool) ==
  IF tool \in KeySecretTools THEN {"branch_key", "branch_secret"}
  ELSE IF tool \in KeyTools THEN {"branch_key"}
  ELSE IF tool \in TokenTools THEN {"api_key"}
  ELSE {"app_id", "auth_token"}

\* What the call supplies for a credential, the documented variable being
\* its default.
Supplied(f) ==
  IF params[f] # Undefined THEN params[f] ELSE EnvValue(env, DocumentedVariable(f))

\* The call leaves out a required credential whose variable is set, and gives
\* no other ground for refusal: every credential is passed non-empty or left
\* to a set variable, a scope identifier is available, a title is present.
OmitsToEnvironment ==
  /\ op \in Tools
  /\ \A f \in AuthFields : params[f] # ""
  /\ \A f \in RequiredCredentials(op) : Truthy(Supplied(f))
  /\ \E f \in RequiredCredentials(op) : params[f] = Undefined
  /\ op \in ScopedTools => (Truthy(Supplied("app_id")) \/ Truthy(Supplied("organization_id")))
  /\ ~ TitleMissing

\* C15: when a documented credential variable was set at start-up, every
\* tool that requires the credential accepts a call omitting it and sends
\* its request with the environment's value.
C15_EnvironmentDefaults ==
  OmitsToEnvironment =>
    /\ requests # <<>>
    /\ op \in KeySecretTools =>
          /\ requests[1].branch_key = Supplied("branch_key")
          /\ requests[1].branch_secret = Supplied("branch_secret")
    /\ op \in TokenTools => requests[1].access_token = Supplied("api_key")

(***************************************************************************)
(* Claims about the redactor's effect on the heap, SpecHeap                *)
(***************************************************************************)
\* C16: sanitizeLogObject never mutates its input: after the call every
\* object and array that existed before it is as it was, and for an object
\* or array input the returned structure is made of objects allocated by
\* the call only, sharing none with the input.
C16_InputNotMutated ==
  (op = "sanitizeLogObject" /\ outcome = "return") =>
    /\ \A a \in DOMAIN heapAtCall : heap[a] = heapAtCall[a]
    /\ heapArg.t = "ref" =>
         /\ heapResult.t = "ref"
         /\ Reachable(heap, heapResult) \cap DOMAIN heapAtCall = {}
         /\ Reachable(heap, heapResult) \cap Reachable(heapAtCall, heapArg) = {}

\* The input held an object inside an array inside an object, with a
\* sensitive key; the call returned a copy at new addresses.
C16_Witness ==
  /\ op = "sanitizeLogObject"
  /\ heapArg = Ref(3)
  /\ Cardinality(Reachable(heapAtCall, heapArg)) = 3
  /\ heapAtCall[2].array
  /\ \E i \in DOMAIN heapAtCall[1].props : heapAtCall[1].props[i].k = "api_key"
  /\ Cardinality(Reachable(heap, heapResult)) = 3
  /\ Len(heap) = 6

\* The heap-level run returns what the value-level function computes.
HeapAgreesWithValues ==
  (op = "sanitizeLogObject" /\ outcome = "return") =>
    Deref(heap, heapResult) = sanitizeLogObject(Deref(heapAtCall, heapArg))

(***************************************************************************)
(* Claims about the logger's pipeline, SpecLogger                          *)
(***************************************************************************)
\* The position of a format among those applied, 0 if it was not applied.
AppliedAt(format) ==
  IF \E i \in DOMAIN applied : applied[i] = format
    THEN CHOOSE i \in DOMAIN applied : applied[i] = format
    ELSE 0

\* C17: every record the logger writes has passed through sanitizeLogObject
\* after the splat step merged the meta arguments into it and before the
\* json step serialized it, so that nothing written holds an unredacted
\* value under a sensitive key although the call site passed its payload
\* as it was.
C17_SanitizedBeforeWritten ==
  (op = "logger.write" /\ written # <<>>) =>
    /\ 0 < AppliedAt("splat")
    /\ AppliedAt("splat") < AppliedAt("sanitizerFormat")
    /\ AppliedAt("sanitizerFormat") < AppliedAt("json")
    /\ \A i \in DOMAIN written : SensitiveRedacted(written[i])

\* A call site logged params holding a credential nested in an array; the
\* written record holds the placeholder in its place, after the level and
\* message and before the timestamp.
C17_Witness ==
  /\ op = "logger.write"
  /\ logIn = Obj(<<Prop("user", Arr(<<Obj(<<Prop("auth_token", Str("v"))>>)>>))>>)
  /\ written =
       <<Obj(<<Prop("user", Arr(<<Obj(<<Prop("auth_token", Str(REDACTED_PLACEHOLDER))>>)>>)),
               Prop("level", Str("debug")),
               Prop("message", Str("m")),
               Prop("timestamp", Str("YYYY-MM-DD HH:mm:ss"))>>)>>

RanAlone(slot) ==
  RunTool(slot.tool, slot.params, slot.url, LoadConfig(env), slot.answers)

RequestLimit(tool) == IF tool = "branch_update_quick_link" THEN 2 ELSE 1

\* C20: within one tool invocation no request is issued again after it
\* failed and no transport failure is swallowed: the invocation issues at
\* most one request (branch_update_quick_link: one GET, then at most one
\* PUT), and whenever a request failed, so that its catch block received
\* the failure, the invocation ended with a thrown error.
C20_NoRetryNoSwallow ==
  op \in Tools =>
    /\ Len(requests) <= RequestLimit(op)
    /\ (op = "branch_update_quick_link" /\ requests # <<>>) =>
         /\ requests[1].method = "GET"
         /\ \A i \in 2..Len(requests) : requests[i].method = "PUT"
    /\ caught # NotCaught => Threw
    /\ outcome = "return" => (Len(requests) = RequestLimit(op) /\ caught = NotCaught)

\* The PUT of an update failed after its GET had succeeded: both went out
\* once and the failure was thrown.
C20_Witness ==
  /\ op = "branch_update_quick_link"
  /\ Len(requests) = 2
  /\ requests[2].method = "PUT"
  /\ isAxiosError(caught)
  /\ Threw
  /\ thrown.cls = "BranchApiError"

\* A single-request tool's request failed: it went out once and the failure
\* was thrown.
C20_WitnessSingle ==
  /\ op = "branch_create_cohort_export"
  /\ Len(requests) = 1
  /\ caught = AxiosError("Network Error", NoResponse)
  /\ Threw

(***************************************************************************)
(* Claims about the redactor's termination, SpecTerminate                  *)
(***************************************************************************)
\* C21: sanitizeLogObject terminates on every finite acyclic input: a call
\* that is running always comes to return.
C21_Terminates ==
  (op = "sanitizing") ~> (op = "sanitizeLogObject" /\ outcome = "return" /\ stack = <<>>)

\* A call on an object holding an array holding an object has returned its
\* three copies.
C21_Witness ==
  /\ op = "sanitizeLogObject"
  /\ outcome = "return"
  /\ stack = <<>>
  /\ heapArg = Ref(3)
  /\ heapAtCall[3].props = <<HeapProp("user", Ref(2))>>
  /\ heapAtCall[2].array
  /\ heapAtCall[2].props = <<HeapProp("", Ref(1))>>
  /\ heapResult = Ref(4)
  /\ Len(heap) = 6

\* The step-by-step run returns what the recursive definition computes.
StepsAgreeWithRecursion ==
  (op = "sanitizeLogObject" /\ outcome = "return") =>
    /\ heap = sanitizeHeapValue(heapAtCall, heapArg).heap
    /\ heapResult = sanitizeHeapValue(heapAtCall, heapArg).value

(***************************************************************************)
(* Claims about branch_update_quick_link's two requests, SpecConcurrent    *)
(***************************************************************************)
UpdateUrl == getBranchBaseUrl(config) \o "/v1/url"

\* C22: branch_update_quick_link reads, then writes: the PUT to /v1/url goes
\* out only once the GET of the existing link has been answered with
\* success; if the GET fails no PUT goes out; an invocation that succeeds
\* has issued exactly one GET followed by exactly one PUT.
C22_ReadThenWrite ==
  \A i \in Invocations :
    LET slot == inFlight[i] IN
      slot.tool = "branch_update_quick_link" =>
        /\ Len(slot.sent) <= 2
        /\ Len(slot.sent) >= 1 =>
             (slot.sent[1].method = "GET" /\ slot.sent[1].url = UpdateUrl)
        /\ Len(slot.sent) = 2 =>
             /\ slot.sent[2].method = "PUT"
             /\ slot.sent[2].url = UpdateUrl
             /\ Len(slot.answers) >= 1
             /\ slot.answers[1].ok
        /\ (Len(slot.answers) >= 1 /\ ~ slot.answers[1].ok) =>
             (Len(slot.sent) = 1 /\ slot.status = "ended" /\ slot.result.outcome = "throw")
        /\ (slot.status = "ended" /\ slot.result.outcome = "return") =>
             (Len(slot.sent) = 2 /\ slot.answers = <<Fulfilled, Fulfilled>>)

\* One update ended after its GET failed, having sent the GET alone, and
\* another succeeded with its GET and its PUT.
C22_Witness ==
  /\ inFlight[1].tool = "branch_update_quick_link"
  /\ inFlight[1].status = "ended"
  /\ inFlight[1].answers = <<Rejected(AxiosError("Network Error", NoResponse))>>
  /\ Len(inFlight[1].sent) = 1
  /\ inFlight[2].tool = "branch_update_quick_link"
  /\ inFlight[2].status = "ended"
  /\ inFlight[2].result.outcome = "return"
  /\ Len(inFlight[2].sent) = 2

(***************************************************************************)
(* Claims about branch_update_quick_link's PUT body, SpecPayload           *)
(***************************************************************************)
\* The update issued its PUT.
PutIssued == op = "branch_update_quick_link" /\ Len(requests) = 2

\* C23: the PUT payload of branch_update_quick_link never holds any of the
\* immutable keys, whatever the existing link and the supplied link_data
\* hold, and it always carries the resolved branch_key and branch_secret
\* and the caller's url.
C23_PayloadKeys ==
  PutIssued =>
    /\ DOMAIN payload \cap immutableKeys = {}
    /\ {"branch_key", "branch_secret", "url"} \subseteq DOMAIN payload
    /\ payload["branch_key"] = StrValue(getResolvedAuth(params, config).branch_key)
    /\ payload["branch_secret"] = StrValue(getResolvedAuth(params, config).branch_secret)
    /\ payload["url"] = StrValue(linkUrl)

\* The existing link held an alias, a type, a key and a url of its own, and
\* the caller passed an alias and a url in link_data; the payload holds
\* neither alias nor type, and the resolved key and the caller's url.
C23_Witness ==
  /\ PutIssued
  /\ {"alias", "type", "branch_key", "url"} \subseteq DOMAIN existingLinkData
  /\ {"alias", "url"} \subseteq DOMAIN link_data
  /\ params.branch_key = Undefined
  /\ payload["branch_key"] = StrValue("env_BRANCH_KEY")
  /\ payload["url"] = StrValue("updatable")
  /\ "alias" \notin DOMAIN payload

\* The keys of the existing link that the payload is to keep.
Kept == DOMAIN existingLinkData \ (immutableKeys \cup {"branch_key", "branch_secret", "url"})

\* C24: branch_update_quick_link loses no existing link data: every value
\* of the link read by the GET that is neither immutable nor named by the
\* caller's link_data is in the PUT payload unchanged, each key inside the
\* existing data object that link_data.data does not name included; what
\* link_data names takes the caller's value.
C24_NoDataLost ==
  PutIssued =>
    \A k \in Kept :
      /\ k \in DOMAIN payload
      /\ k \notin DOMAIN link_data => payload[k] = existingLinkData[k]
      /\ (k \in DOMAIN link_data /\ ~ existingLinkData[k].isObj) => payload[k] = link_data[k]
      /\ (k \in DOMAIN link_data /\ existingLinkData[k].isObj /\ link_data[k].isObj) =>
           /\ payload[k].isObj
           /\ \A d \in DOMAIN link_data[k].obj :
                d \in DOMAIN payload[k].obj /\ payload[k].obj[d] = link_data[k].obj[d]
           /\ \A d \in DOMAIN existingLinkData[k].obj \ DOMAIN link_data[k].obj :
                d \in DOMAIN payload[k].obj /\ payload[k].obj[d] = existingLinkData[k].obj[d]

(***************************************************************************)
(* Claims about branch_bulk_create_quick_links, SpecServer                 *)
(***************************************************************************)
\* A link of the batch is a MARKETING link without a $marketing_title.
BatchInvalid ==
  \E i \in DOMAIN linkList :
    linkList[i].type = "MARKETING" /\ linkList[i].marketing_title = Undefined

\* C25: branch_bulk_create_quick_links validates all links before sending
\* anything.  If any link of the batch has type MARKETING and no
\* data.$marketing_title, no HTTP request is issued for any link and the
\* invocation (its Branch key resolved) returns an isError result;
\* otherwise exactly one POST carrying all links is issued, in which a link
\* has type 2 exactly when its input type was MARKETING.
C25_ValidateAllThenOnePost ==
  op = "branch_bulk_create_quick_links" =>
    /\ BatchInvalid => requests = <<>>
    /\ (BatchInvalid /\ Truthy(getResolvedAuth(params, config).branch_key)) =>
         outcome = "error_result"
    /\ (~ BatchInvalid /\ Truthy(getResolvedAuth(params, config).branch_key)) =>
         /\ Len(requests) = 1
         /\ requests[1].method = "POST"
         /\ requests[1].url = getBranchBaseUrl(config) \o "/v1/url/bulk/"
                               \o getResolvedAuth(params, config).branch_key
         /\ Len(requests[1].links) = Len(linkList)
         /\ \A i \in DOMAIN linkList :
              /\ requests[1].links[i].type = "2" <=> linkList[i].type = "MARKETING"
              /\ requests[1].links[i].type \in {"2", Undefined}
              /\ requests[1].links[i].marketing_title = linkList[i].marketing_title

\* A batch whose first link is a titled MARKETING link and whose second is
\* an untyped one was sent in one POST, the first as type 2.
C25_Witness ==
  /\ op = "branch_bulk_create_quick_links"
  /\ Len(linkList) = 2
  /\ linkList[1] = [type |-> "MARKETING", marketing_title |-> "Title"]
  /\ linkList[2] = [type |-> Undefined, marketing_title |-> Undefined]
  /\ Len(requests) = 1
  /\ requests[1].links[1].type = "2"
  /\ outcome = "return"

\* A batch whose first link is valid and whose second is a MARKETING link
\* without a title was refused with an isError result, nothing sent.
C25_WitnessRefused ==
  /\ op = "branch_bulk_create_quick_links"
  /\ Len(linkList) = 2
  /\ linkList[1] = [type |-> "MARKETING", marketing_title |-> "Title"]
  /\ linkList[2] = [type |-> "MARKETING", marketing_title |-> Undefined]
  /\ requests = <<>>
  /\ outcome = "error_result"

(***************************************************************************)
(* Claims about the scope identifiers of the export tools, SpecServer      *)
(***************************************************************************)
\* C26: every outbound request issued by a tool that accepts app_id and
\* organization_id carries a single scope identifier: at most one of app_id
\* and organization_id appears in its query parameters, app_id taking
\* precedence when both are available.
C26_SingleScopeIdentifier ==
  op \in ScopedTools =>
    \A i \in DOMAIN requests :
      /\ ~ (requests[i].app_id # Undefined /\ requests[i].organization_id # Undefined)
      /\ (Truthy(params.app_id) /\ Truthy(params.organization_id)) =>
           (requests[i].app_id = params.app_id /\ requests[i].organization_id = Undefined)

\* An export was created with both identifiers given, and its request
\* carries both.
C26_BothSent ==
  /\ op = "branch_create_aggregate_export"
  /\ Truthy(params.app_id) /\ Truthy(params.organization_id)
  /\ Len(requests) = 1
  /\ requests[1].app_id = params.app_id
  /\ requests[1].organization_id = params.organization_id

(***************************************************************************)
(* Claims about the credential checks of the handlers, SpecServer          *)
(***************************************************************************)
\* The handler threw before sending anything, and not for a missing title.
NotConfiguredRaised ==
  /\ op \in KeySecretTools \cup KeyTools
  /\ outcome = "throw"
  /\ requests = <<>>
  /\ ~ TitleMissing

\* Neither the params nor the config give a non-empty value for field f.
NoValueFor(f) == ~ Truthy(params[f]) /\ ~ Truthy(config[f])

\* C27: a tool handler that resolves its credentials through
\* getResolvedAuth raises its 'not configured' error only when neither the
\* call parameters nor the service config provide a non-empty value for the
\* required credential; whenever the config holds a non-empty value for it,
\* the handler proceeds to the request whatever the caller passed (absent
\* or empty string) for that credential.
C27_RefusedOnlyWithoutValue ==
  NotConfiguredRaised =>
    \/ NoValueFor("branch_key")
    \/ op \in KeySecretTools /\ NoValueFor("branch_secret")

\* The config holds a key and a secret, the caller passed an empty string
\* as branch_key, and the handler refused.
C27_EmptyParamRefused ==
  /\ op = "branch_get_app_settings"
  /\ params.branch_key = ""
  /\ config.branch_key = "env_BRANCH_KEY"
  /\ config.branch_secret = "env_BRANCH_SECRET"
  /\ outcome = "throw"
  /\ requests = <<>>

(***************************************************************************)
(* Claims relating getApiQueryParams to getResolvedAuth, Spec              *)
(***************************************************************************)
\* C29: the scope builder and the credential resolver agree on scope
\* identifiers: for all params and config, whenever
\* getApiQueryParams(params, config) contains app_id it equals
\* getResolvedAuth(params, config).app_id, and whenever it contains
\* organization_id it equals getResolvedAuth(params, config).organization_id.
C29_ScopeAgreesWithResolver ==
  (op = "getApiQueryParams" /\ outcome = "return") =>
    /\ "app_id" \in DOMAIN queryParams =>
         queryParams.app_id = getResolvedAuth(paramsAtCall, config).app_id
    /\ "organization_id" \in DOMAIN queryParams =>
         queryParams.organization_id = getResolvedAuth(paramsAtCall, config).organization_id

\* The caller passed an empty app_id and the config holds one: the scope
\* builder took the config's, the resolver keeps the empty string.
C29_EmptyParamDisagrees ==
  /\ op = "getApiQueryParams"
  /\ paramsAtCall.app_id = ""
  /\ Truthy(config.app_id)
  /\ queryParams.app_id = config.app_id
  /\ getResolvedAuth(paramsAtCall, config).app_id = ""

(***************************************************************************)
(* Non-interference of the redaction, SpecLog                              *)
(***************************************************************************)
\* The values a sensitive key may hold in the other input of a pair: another
\* string, and a nested value of another type and size.
SecretValues == {Str("another secret"), Obj(<<Prop("user", Str("v"))>>)}

RECURSIVE Choose(_)
\* The sequences that take their i-th element from the i-th of the sets.
Choose(sets) ==
  IF sets = <<>> THEN {<<>>}
  ELSE {<<first>> \o rest : first \in Head(sets), rest \in Choose(Tail(sets))}

RECURSIVE Variants(_)
\* The inputs of the same shape as x that differ from x at most in the
\* values stored under sensitive keys, at any depth.
Variants(x) ==
  IF ~ IsNonNullObject(x) THEN {x}
  ELSE IF x.t = "array"
    THEN {Arr(items) : items \in Choose([i \in DOMAIN x.items |-> Variants(x.items[i])])}
  ELSE {Obj([i \in DOMAIN x.props |-> Prop(x.props[i].k, vals[i])]) :
          vals \in Choose([i \in DOMAIN x.props |->
                             IF x.props[i].k \in SENSITIVE_KEYS
                               THEN {x.props[i].val} \cup SecretValues
                               ELSE Variants(x.props[i].val)])}

\* C28: redaction is non-interfering: for any two finite acyclic inputs
\* that have the same shape and differ only in the values stored under
\* sensitive keys (at any depth), sanitizeLogObject returns equal outputs.
C28_NonInterference ==
  op = "sanitizeLogObject" =>
    \A other \in Variants(logIn) : sanitizeLogObject(other) = logOut

\* A payload with a secret inside an array inside an object was sanitized;
\* it has other inputs of its shape, one of which holds an object where
\* this one holds a string.
C28_Witness ==
  /\ op = "sanitizeLogObject"
  /\ logIn = Obj(<<Prop("user", Arr(<<Obj(<<Prop("branch_key", Str("v")),
                                            Prop("user", Null)>>)>>))>>)
  /\ logOut = Obj(<<Prop("user", Arr(<<Obj(<<Prop("branch_key", Str(REDACTED_PLACEHOLDER)),
                                             Prop("user", Null)>>)>>))>>)
  /\ Obj(<<Prop("user", Arr(<<Obj(<<Prop("branch_key", Obj(<<Prop("user", Str("v"))>>)),
                                   Prop("user", Null)>>)>>))>>) \in Variants(logIn)
  /\ Cardinality(Variants(logIn)) = Cardinality(SecretValues) + 1

(***************************************************************************)
(* Claims about the SSE session map, SpecSse                               *)
(***************************************************************************)
\* The sessions whose connection was opened and has not closed.
OpenSessions == {connections[c].sessionId : c \in {d \in DOMAIN connections : connections[d].open}}

\* The connection that was given session id.
ConnectionOf(id) == CHOOSE c \in DOMAIN connections : connections[c].sessionId = id

\* C30: in SSE transport mode, after any sequence of GET /sse connections,
\* connection closes and POST /sse messages, the session map contains
\* exactly the sessions whose SSE connection has been opened and not yet
\* closed; a POST is forwarded to the transport registered under its
\* sessionId if and only if that session is in the map, and is otherwise
\* answered with 404 'Session not found'.
C30_SessionMap ==
  /\ DOMAIN transports = OpenSessions
  /\ \A id \in DOMAIN transports : transports[id] = ConnectionOf(id)
  /\ op = "POST /sse" =>
       /\ posted.status = "forwarded" <=> posted.sessionId \in OpenSessions
       /\ posted.status = "forwarded" => posted.handledBy = ConnectionOf(posted.sessionId)
       /\ posted.status # "forwarded" =>
            (posted.status = "404" /\ posted.body = "Session not found")

\* Two connections were opened and the first was closed; a POST naming the
\* closed session got 404 while the second session is still in the map.
C30_Witness ==
  /\ op = "POST /sse"
  /\ Len(connections) = 2
  /\ ~ connections[1].open /\ connections[2].open
  /\ posted = NotFound(connections[1].sessionId)
  /\ DOMAIN transports = {connections[2].sessionId}

\* A POST naming an open session was forwarded to that session's transport
\* while another session was open.
C30_WitnessForwarded ==
  /\ op = "POST /sse"
  /\ Len(connections) = 3
  /\ connections[2].open /\ connections[3].open
  /\ posted = Forwarded(connections[2].sessionId, 2)
  /\ connections[2].sessionId # 2

====
